---- MODULE Spec2Model ----
(***************************************************************************)
(* CacheToolsUtils: stackable cache decorators over a mapping contract.    *)
(*                                                                         *)
(* A cache is a tree of decorator nodes over leaf stores.  Every mapping   *)
(* operation is an operator that walks the tree exactly as the Python      *)
(* method delegates to self._cache, and returns the new state of all the   *)
(* objects of the tree together with the value returned or the exception   *)
(* raised.                                                                 *)
(***************************************************************************)
EXTENDS Integers, Sequences, FiniteSets, TLC

VARIABLES
    root,     \* the cache object the caller holds (a tree of decorators)
    st,       \* the mutable state of every object of the tree
    last,     \* the operation that just ran, and what it returned or raised
    prev,     \* the operation that ran before it
    nops,     \* number of operations run so far
    shadow,   \* a copy of the primary store of a two-level cache, driven directly
    written,  \* entries set through root and not deleted through root since
    direct,   \* whether an inner layer was ever written behind root's back
    calls,    \* the calls made on a StatsCache since its construction or reset
    thr,      \* the threads sharing the cache: where each is in its call
    views,    \* the prefixed views built over the one backing store
    counter,  \* AutoPrefixedCache._COUNTER
    fun       \* the cached callable: its cache layers and how often it ran

vars == <<root, st, last, prev, nops, shadow, written, direct, calls, thr, views, counter,
          fun>>

----------------------------------------------------------------------------
(* Bounds of the model.                                                    *)

MaxOps == 3      \* operations per behaviour
MaxCounter == 49 \* AutoPrefixedCache instances built per behaviour

----------------------------------------------------------------------------
(* Python values.  A value is a record of its type and its content, the    *)
(* content always a sequence of numbers: characters of a str, bytes of a   *)
(* bytes, the single number of an int.                                     *)

S(chars) == [t |-> "str", v |-> chars]
B(bytes) == [t |-> "bytes", v |-> bytes]
I(n) == [t |-> "int", v |-> <<n>>]
None == [t |-> "none", v |-> <<>>]
Bool(b) == [t |-> "bool", v |-> <<IF b THEN 1 ELSE 0>>]
T(items) == [t |-> "tuple", v |-> items]

\* what an operation returned (kind "ok") or raised; at is the store that
\* produced the value or raised the error (0: a decorator did)
Ok(val, at) == [kind |-> "ok", val |-> val, at |-> at]
Raise(kind, arg, at) == [kind |-> kind, val |-> arg, at |-> at]

Failed(res) == res.kind \notin {"ok", "KeyError"}

TypeErr == [t |-> "TypeError", v |-> <<>>]

----------------------------------------------------------------------------
(* Conversions.                                                            *)

RECURSIVE Digits(_)
\* decimal digits of a natural number, as character codes
Digits(n) == IF n < 10 THEN <<48 + n>> ELSE Digits(n \div 10) \o <<48 + (n % 10)>>

RECURSIVE Joined(_, _)
\* the items of a tuple of ints from the i-th on, separated by ", "
Joined(items, i) ==
    IF i > Len(items) THEN <<>>
    ELSE (IF i > 1 THEN <<44, 32>> ELSE <<>>) \o Digits(items[i]) \o Joined(items, i + 1)

\* str(x): a str is itself, an int its decimal digits, a bytes its repr
\* b'...', a tuple of ints (i, j) and, of one int, (i,)
Str(x) ==
    CASE x.t = "str" -> x
      [] x.t = "int" -> S(Digits(x.v[1]))
      [] x.t = "bytes" -> S(<<98, 39>> \o x.v \o <<39>>)
      [] x.t = "tuple" -> S(<<40>> \o Joined(x.v, 1)
                              \o (IF Len(x.v) = 1 THEN <<44, 41>> ELSE <<41>>))
      [] OTHER -> S(<<78, 111, 110, 101>>)

\* bytes(x): a bytes is itself, an int n is n zero bytes, a tuple of small
\* ints is those bytes, a str is a TypeError
Bytes(x) ==
    CASE x.t = "bytes" -> x
      [] x.t = "int" -> B([i \in 1..x.v[1] |-> 0])
      [] x.t = "tuple" -> B(x.v)
      [] OTHER -> TypeErr

\* PrefixedCache._cast, chosen by the type of the prefix
Cast(prefix, key) == IF prefix.t = "str" THEN Str(key) ELSE Bytes(key)

\* a _key that forgets the prefix
PrefixedKey_NoPrefix(prefix, key) == Cast(prefix, key)

\* a _key that appends the prefix
PrefixedKey_Suffix(prefix, key) ==
    LET c == Cast(prefix, key)
    IN  IF c.t = "TypeError" THEN c ELSE [t |-> c.t, v |-> c.v \o prefix.v]

\* PrefixedCache._key
PrefixedKey(prefix, key) ==
    LET c == Cast(prefix, key)
    IN  IF c.t = "TypeError" THEN c ELSE [t |-> c.t, v |-> prefix.v \o c.v]

RECURSIVE Xor(_, _)
\* bitwise exclusive or of two naturals
Xor(a, b) ==
    IF a = 0 /\ b = 0 THEN 0
    ELSE (((a % 2) + (b % 2)) % 2) + 2 * Xor(a \div 2, b \div 2)

RECURSIVE Mix(_, _)
\* a number made of every byte of s and of its position
Mix(s, j) == IF j > Len(s) THEN Len(s) ELSE (s[j] * ((131 * j) + 7)) + Mix(s, j + 1)

HashLen == 64

\* stand-in for hashlib.sha3_512(...).digest(): 64 bytes, each depending on
\* every byte of the input, on its position and on the length of the input
Sha3_512(s) ==
    LET h == Mix(s, 1)
    IN  [i \in 1..HashLen |-> ((h \div i) + (h * ((2 * i) + 1)) + (31 * i)) % 256]

\* hashlib.sha3_256(bytes([v])).digest()[0] for v = 0, ..., 255
Sha3First ==
    <<
    93, 39, 10, 227, 152, 59, 90, 82, 4, 139, 167, 150, 145, 204,
      71, 184, 206, 141, 191, 21, 249, 110, 44, 198, 40, 255, 247, 19,
      4, 102, 100, 105, 96, 105, 25, 65, 94, 178, 124, 99, 113, 185,
      130, 121, 69, 167, 104, 18, 249, 103, 177, 27, 180, 134, 12,
      143, 209, 118, 118, 54, 192, 239, 102, 216, 5, 28, 82, 34, 3,
      230, 202, 37, 44, 200, 84, 7, 38, 105, 52, 96, 229, 186, 208,
      22, 179, 120, 62, 76, 49, 8, 31, 164, 128, 153, 27, 183, 116,
      128, 176, 38, 76, 66, 160, 159, 90, 191, 243, 124, 62, 27, 142,
      18, 20, 138, 246, 205, 136, 215, 69, 241, 116, 157, 59, 253,
      104, 91, 170, 170, 188, 31, 58, 115, 142, 214, 11, 46, 123, 8,
      186, 235, 151, 211, 167, 193, 84, 234, 30, 172, 221, 114, 58,
      246, 154, 201, 62, 249, 196, 75, 253, 155, 42, 164, 120, 39,
      152, 116, 147, 108, 142, 82, 173, 219, 176, 5, 170, 193, 7, 166,
      82, 15, 126, 120, 141, 76, 130, 53, 68, 151, 153, 179, 173, 11,
      241, 25, 49, 196, 199, 190, 22, 136, 197, 62, 200, 205, 103,
      161, 150, 73, 206, 127, 24, 171, 61, 160, 35, 116, 61, 36, 181,
      218, 78, 249, 184, 15, 223, 124, 98, 217, 55, 56, 134, 64, 175,
      240, 210, 125, 17, 131, 61, 20, 208, 209, 235, 93, 249, 86, 69,
      27, 52, 104, 73, 137, 26, 25, 75, 68
    >>

\* hashlib.sha3_256(...).digest(): 32 bytes; the first byte of the digest of
\* a single byte is the real one, the others are stand-ins
Sha3_256(s) ==
    LET h == Mix(s, 1)
    IN  [i \in 1..32 |->
            IF i = 1 /\ Len(s) = 1 THEN Sha3First[s[1] + 1]
            ELSE ((h \div (i + 1)) + (h * ((2 * i) + 3)) + (17 * i) + 1) % 256]

\* Python slice s[a:b]
Slice(s, a, b) == SubSeq(s, a + 1, IF b < Len(s) THEN b ELSE Len(s))

\* EncryptedCache._derive: (hashed key, derived material)
Derive(c, key) == Sha3_512(key.v \o c.secret.v)

\* _Cipher.new(derived) for the stream ciphers: key is derived[32:64], nonce
\* derived[24:32]; the keystream byte at position i
KeyStream(derived, i) ==
    LET key == Slice(derived, 32, 64)
        nonce == Slice(derived, 24, 32)
    IN  (key[((i - 1) % 32) + 1] + (3 * nonce[((i - 1) % 8) + 1]) + i) % 256

\* encrypt and decrypt of a stream cipher: exclusive or with the keystream
Crypt(derived, data) == [i \in 1..Len(data) |-> Xor(data[i], KeyStream(derived, i))]

----------------------------------------------------------------------------
(* The state of the objects, and the leaf stores.                          *)
(*                                                                         *)
(* st.store[id]  contents of leaf store id: a sequence of entries          *)
(*               [k, v] in insertion order, as a Python dict keeps them    *)
(* st.stats[id]  the five counters of StatsCache id                        *)
(* st.lock[id]   whether the lock of LockedCache id is held                *)
(* st.log        the last message a DebugCache logged                      *)
(* st.acc        the leaf-store accesses of the running operation, in      *)
(*               order: [at |-> store, op |-> "get" | "set" | ...]         *)

StoreIds == 1..2
StatsIds == 1..2
LockIds == 1..1

ZeroStats == [tests |-> 0, reads |-> 0, writes |-> 0, dels |-> 0, hits |-> 0]

NoLog == [op |-> "", key |-> None]

InitSt ==
    [store |-> [i \in StoreIds |-> <<>>],
     stats |-> [i \in StatsIds |-> ZeroStats],
     lock |-> [i \in LockIds |-> FALSE],
     log |-> NoLog,
     acc |-> <<>>]

\* position of key in a store's entries, 0 when absent
RECURSIVE IndexFrom(_, _, _)
IndexFrom(entries, key, i) ==
    IF i > Len(entries) THEN 0
    ELSE IF entries[i].k = key THEN i
    ELSE IndexFrom(entries, key, i + 1)

Index(entries, key) == IndexFrom(entries, key, 1)

\* entries without the one at position i
Without(entries, i) ==
    [j \in 1..(Len(entries) - 1) |-> IF j < i THEN entries[j] ELSE entries[j + 1]]

Access(s, id, op) == [s EXCEPT !.acc = Append(@, [at |-> id, op |-> op])]

\* dict.__contains__
StoreContains(id, s, key) ==
    [st |-> Access(s, id, "in"),
     res |-> Ok(Bool(Index(s.store[id], key) # 0), id)]

\* dict.__getitem__: the value, or KeyError(key)
StoreGet(id, s, key) ==
    LET i == Index(s.store[id], key)
    IN  [st |-> Access(s, id, "get"),
         res |-> IF i = 0 THEN Raise("KeyError", key, id)
                 ELSE Ok(s.store[id][i].v, id)]

\* dict.__delitem__: removes the entry, or KeyError(key)
StoreDel(id, s, key) ==
    LET i == Index(s.store[id], key)
    IN  IF i = 0
        THEN [st |-> Access(s, id, "del"), res |-> Raise("KeyError", key, id)]
        ELSE [st |-> [Access(s, id, "del") EXCEPT !.store[id] = Without(@, i)],
              res |-> Ok(None, id)]

\* dict.__setitem__: an existing key keeps its place, a new one goes last
StoreSet(id, s, key, val) ==
    LET i == Index(s.store[id], key)
        e == [k |-> key, v |-> val]
    IN  [st |-> [Access(s, id, "set") EXCEPT
                    !.store[id] = IF i = 0 THEN Append(@, e) ELSE [@ EXCEPT ![i] = e]],
         res |-> Ok(None, id)]

\* a cachetools cache of maxsize entries (LRUCache, LFUCache, TTLCache...):
\* setting a new key into a full cache first evicts one entry.  Which one is
\* the policy of the cache: any entry, here the one numbered by pick.
BoundedSet(id, maxsize, s, key, val, pick) ==
    LET entries == s.store[id]
        full == Index(entries, key) = 0 /\ Len(entries) >= maxsize
        victim == ((pick - 1) % Len(entries)) + 1
        s1 == IF full THEN [s EXCEPT !.store[id] = Without(@, victim)] ELSE s
    IN  StoreSet(id, s1, key, val)

\* dict.clear
StoreClear(id, s) ==
    [st |-> [Access(s, id, "clear") EXCEPT !.store[id] = <<>>], res |-> Ok(None, id)]

\* test.py BrokenCache: every operation raises Exception("oops!")
Broken(id, s, op) ==
    [st |-> Access(s, id, op), res |-> Raise("Exception", S(<<111, 111, 112, 115, 33>>), id)]

----------------------------------------------------------------------------
(* The decorators.  A node of the tree is a record:                        *)
(*   [kind |-> "Dict", id]                      DictCache                  *)
(*   [kind |-> "Cache", id, maxsize]            a cachetools cache         *)
(*   [kind |-> "Broken", id]                    test.py BrokenCache        *)
(*   [kind |-> "Debug", cache]                                             *)
(*   [kind |-> "Locked", id, cache]                                        *)
(*   [kind |-> "Prefixed", prefix, cache]                                  *)
(*   [kind |-> "Stats", id, cache]                                         *)
(*   [kind |-> "TwoLevel", cache, cache2, resilient]                       *)
(*   [kind |-> "Encrypted", secret, hsize, csize, cache]                   *)
(* An operation takes the node, the state of the objects and its           *)
(* arguments, and gives [st |-> the state afterwards, res |-> the result]. *)
(* pick is the entry a full cachetools cache evicts, should it evict.      *)

RECURSIVE Contains(_, _, _)
RECURSIVE GetItem(_, _, _, _)
RECURSIVE SetItem(_, _, _, _, _)
RECURSIVE DelItem(_, _, _)
RECURSIVE Clear(_, _)

Fail(s, kind, arg) == [st |-> s, res |-> Raise(kind, arg, 0)]

RECURSIVE HasClear(_)
\* whether clear() is defined by the class of the node and of those it forwards to
HasClear(c) ==
    CASE c.kind \in {"Dict", "Cache"} -> TRUE
      [] c.kind \in {"Debug", "Stats", "TwoLevel"} -> HasClear(c.cache)
      [] OTHER -> FALSE

\* DebugCache._debug
Debug(s, op, key) == [s EXCEPT !.log = [op |-> op, key |-> key]]

DebugContains(c, s, key) == Contains(c.cache, Debug(s, "in", key), key)
DebugGet(c, s, key, pick) == GetItem(c.cache, Debug(s, "get", key), key, pick)
DebugSet(c, s, key, val, pick) == SetItem(c.cache, Debug(s, "set", key), key, val, pick)
DebugDel(c, s, key) == DelItem(c.cache, Debug(s, "del", key), key)
DebugClear(c, s) == Clear(c.cache, Debug(s, "clear", None))

\* a lock that lets every thread in
LockFree_Always(s, id) == TRUE

\* "with self._lock:" can be entered by a thread only when the lock is free
LockFree(s, id) == ~s.lock[id]

\* a "with" that keeps the lock when the body raises
Release_OnReturn(r, id) ==
    IF r.res.kind = "ok" THEN [st |-> [r.st EXCEPT !.lock[id] = FALSE], res |-> r.res]
    ELSE r

\* "with self._lock:" entered and left; the lock is released on every exit
Acquire(s, id) == [s EXCEPT !.lock[id] = TRUE]
Release(r, id) == [st |-> [r.st EXCEPT !.lock[id] = FALSE], res |-> r.res]

LockedContains(c, s, key) == Release(Contains(c.cache, Acquire(s, c.id), key), c.id)
LockedGet(c, s, key, pick) == Release(GetItem(c.cache, Acquire(s, c.id), key, pick), c.id)
LockedSet(c, s, key, val, pick) ==
    Release(SetItem(c.cache, Acquire(s, c.id), key, val, pick), c.id)
LockedDel(c, s, key) == Release(DelItem(c.cache, Acquire(s, c.id), key), c.id)

\* _KeyMutMapMix with PrefixedCache._key
PrefixedContains(c, s, key) ==
    LET k == PrefixedKey(c.prefix, key)
    IN  IF k.t = "TypeError" THEN Fail(s, "TypeError", key) ELSE Contains(c.cache, s, k)

PrefixedGet(c, s, key, pick) ==
    LET k == PrefixedKey(c.prefix, key)
    IN  IF k.t = "TypeError" THEN Fail(s, "TypeError", key) ELSE GetItem(c.cache, s, k, pick)

\* a __setitem__ that forgets the key filter
PrefixedSet_RawKey(c, s, key, val, pick) == SetItem(c.cache, s, key, val, pick)

PrefixedSet(c, s, key, val, pick) ==
    LET k == PrefixedKey(c.prefix, key)
    IN  IF k.t = "TypeError" THEN Fail(s, "TypeError", key)
        ELSE SetItem(c.cache, s, k, val, pick)

PrefixedDel(c, s, key) ==
    LET k == PrefixedKey(c.prefix, key)
    IN  IF k.t = "TypeError" THEN Fail(s, "TypeError", key) ELSE DelItem(c.cache, s, k)

\* StatsCache
StatsContains(c, s, key) ==
    Contains(c.cache, [s EXCEPT !.stats[c.id].tests = @ + 1], key)

\* a __getitem__ that counts the hit before it knows
StatsGet_HitFirst(c, s, key, pick) ==
    GetItem(c.cache, [s EXCEPT !.stats[c.id].reads = @ + 1, !.stats[c.id].hits = @ + 1],
            key, pick)

\* a __getitem__ that counts the hits and not the reads
StatsGet_HitOnly(c, s, key, pick) ==
    LET r == GetItem(c.cache, s, key, pick)
    IN  IF r.res.kind = "ok"
        THEN [st |-> [r.st EXCEPT !.stats[c.id].hits = @ + 1], res |-> r.res]
        ELSE r

StatsGet(c, s, key, pick) ==
    LET r == GetItem(c.cache, [s EXCEPT !.stats[c.id].reads = @ + 1], key, pick)
    IN  IF r.res.kind = "ok"
        THEN [st |-> [r.st EXCEPT !.stats[c.id].hits = @ + 1], res |-> r.res]
        ELSE r

StatsSet(c, s, key, val, pick) ==
    SetItem(c.cache, [s EXCEPT !.stats[c.id].writes = @ + 1], key, val, pick)

StatsDel(c, s, key) ==
    DelItem(c.cache, [s EXCEPT !.stats[c.id].dels = @ + 1], key)

StatsClear(c, s) == Clear(c.cache, s)

\* a __getitem__ that asks the second cache first
TwoLevelGet_SecondFirst(c, s, key, pick) ==
    LET r2 == GetItem(c.cache2, s, key, pick)
    IN  IF r2.res.kind = "ok" THEN r2
        ELSE IF Failed(r2.res) /\ ~c.resilient THEN r2
        ELSE GetItem(c.cache, r2.st, key, pick)

\* a __getitem__ that returns the second cache's value without keeping it
TwoLevelGet_NoBackfill(c, s, key, pick) ==
    LET r1 == GetItem(c.cache, s, key, pick)
    IN  IF r1.res.kind # "KeyError" THEN r1
        ELSE LET r2 == GetItem(c.cache2, r1.st, key, pick)
             IN  IF r2.res.kind = "KeyError" \/ (r2.res.kind # "ok" /\ c.resilient)
                 THEN [st |-> r2.st, res |-> r1.res]
                 ELSE r2

\* a __getitem__ that lets the second cache's error through, KeyError or
\* not, resilient or not
TwoLevelGet_SecondError(c, s, key, pick) ==
    LET r1 == GetItem(c.cache, s, key, pick)
    IN  IF r1.res.kind # "KeyError" THEN r1
        ELSE LET r2 == GetItem(c.cache2, r1.st, key, pick)
             IN  IF r2.res.kind # "ok" THEN r2
                 ELSE LET w == SetItem(c.cache, r2.st, key, r2.res.val, pick)
                      IN  IF w.res.kind # "ok" THEN w
                          ELSE [st |-> w.st, res |-> r2.res]

\* a resilient __getitem__ that raises the second cache's failure all the same
TwoLevelGet_Reraise(c, s, key, pick) ==
    LET r1 == GetItem(c.cache, s, key, pick)
    IN  IF r1.res.kind # "KeyError" THEN r1
        ELSE LET r2 == GetItem(c.cache2, r1.st, key, pick)
             IN  IF r2.res.kind = "KeyError" THEN [st |-> r2.st, res |-> r1.res]
                 ELSE IF r2.res.kind # "ok" THEN r2
                 ELSE LET w == SetItem(c.cache, r2.st, key, r2.res.val, pick)
                      IN  IF w.res.kind # "ok" THEN w
                          ELSE [st |-> w.st, res |-> r2.res]

\* a __getitem__ that reads the second cache whether or not the first one
\* held the key
TwoLevelGet_ReadBoth(c, s, key, pick) ==
    LET r1 == GetItem(c.cache, s, key, pick)
        r2 == GetItem(c.cache2, r1.st, key, pick)
    IN  IF r1.res.kind # "KeyError" THEN [st |-> r2.st, res |-> r1.res]
        ELSE IF r2.res.kind = "KeyError" \/ (r2.res.kind # "ok" /\ c.resilient)
        THEN [st |-> r2.st, res |-> r1.res]
        ELSE IF r2.res.kind # "ok" THEN r2
        ELSE LET w == SetItem(c.cache, r2.st, key, r2.res.val, pick)
             IN  IF w.res.kind # "ok" THEN w
                 ELSE [st |-> w.st, res |-> r2.res]

\* TwoLevelCache.__getitem__
TwoLevelGet(c, s, key, pick) ==
    LET r1 == GetItem(c.cache, s, key, pick)
    IN  IF r1.res.kind # "KeyError" THEN r1
        ELSE LET r2 == GetItem(c.cache2, r1.st, key, pick)
             IN  IF r2.res.kind = "KeyError"
                 THEN [st |-> r2.st, res |-> r1.res]          \* raise ke
                 ELSE IF r2.res.kind # "ok"
                 THEN IF c.resilient
                      THEN [st |-> r2.st, res |-> r1.res]     \* log, raise ke
                      ELSE r2                                 \* raise
                 ELSE LET w == SetItem(c.cache, r2.st, key, r2.res.val, pick)
                      IN  IF w.res.kind # "ok" THEN w
                          ELSE [st |-> w.st, res |-> r2.res]

\* a __setitem__ that writes the first cache before the second
TwoLevelSet_FirstFirst(c, s, key, val, pick) ==
    LET r1 == SetItem(c.cache, s, key, val, pick)
        r2 == SetItem(c.cache2, r1.st, key, val, pick)
    IN  IF r2.res.kind # "ok" /\ ~c.resilient THEN r2
        ELSE [st |-> r2.st, res |-> r1.res]

\* a __setitem__ that writes the first cache only
TwoLevelSet_FirstOnly(c, s, key, val, pick) == SetItem(c.cache, s, key, val, pick)

\* TwoLevelCache.__setitem__
TwoLevelSet(c, s, key, val, pick) ==
    LET r2 == SetItem(c.cache2, s, key, val, pick)
    IN  IF r2.res.kind # "ok" /\ ~c.resilient THEN r2
        ELSE SetItem(c.cache, r2.st, key, val, pick)

\* a __delitem__ that ignores every failure of the second cache
TwoLevelDel_Swallow(c, s, key) ==
    LET r2 == DelItem(c.cache2, s, key) IN DelItem(c.cache, r2.st, key)

\* a __delitem__ that leaves the second cache alone
TwoLevelDel_FirstOnly(c, s, key) == DelItem(c.cache, s, key)

\* a __delitem__ that succeeds when either cache held the key
TwoLevelDel_Either(c, s, key) ==
    LET r2 == DelItem(c.cache2, s, key)
    IN  IF Failed(r2.res) /\ ~c.resilient THEN r2
        ELSE LET r1 == DelItem(c.cache, r2.st, key)
             IN  IF r1.res.kind = "KeyError" /\ r2.res.kind = "ok"
                 THEN [st |-> r1.st, res |-> r2.res]
                 ELSE r1
\* TwoLevelCache.__delitem__
TwoLevelDel(c, s, key) ==
    LET r2 == DelItem(c.cache2, s, key)
    IN  IF Failed(r2.res) /\ ~c.resilient THEN r2
        ELSE DelItem(c.cache, r2.st, key)

\* TwoLevelCache.__contains__ is _MutMapMix.__contains__: the first cache only
TwoLevelContains(c, s, key) == Contains(c.cache, s, key)

\* a clear that is passed on to cache2
TwoLevelClear_Both(c, s) ==
    LET r == Clear(c.cache, s)
    IN  IF HasClear(c.cache2) THEN Clear(c.cache2, r.st) ELSE r

\* TwoLevelCache.clear: not passed on to cache2
TwoLevelClear(c, s) == Clear(c.cache, s)

\* EncryptedCache._key: the first hsize bytes of the derived material
HashedKey(c, key) == B(Slice(Derive(c, key), 0, c.hsize))

\* the checksum of a clear value: the first csize bytes of its SHA3-256
Checksum(c, val) == Slice(Sha3_256(val), 0, c.csize)

\* EncryptedCache.__setitem__
EncryptedSet(c, s, key, val, pick) ==
    IF key.t # "bytes" \/ val.t # "bytes" THEN Fail(s, "TypeError", key)
    ELSE LET xval == Crypt(Derive(c, key), val.v)
         IN  SetItem(c.cache, s, HashedKey(c, key),
                     B(IF c.csize > 0 THEN Checksum(c, val.v) \o xval ELSE xval), pick)

\* EncryptedCache.__getitem__
EncryptedGet(c, s, key, pick) ==
    IF key.t # "bytes" THEN Fail(s, "TypeError", key)
    ELSE LET r == GetItem(c.cache, s, HashedKey(c, key), pick)
         IN  IF r.res.kind # "ok" THEN r
             ELSE IF r.res.val.t # "bytes" THEN Fail(r.st, "TypeError", key)
             ELSE LET cs == Slice(r.res.val.v, 0, c.csize)
                      xval == Slice(r.res.val.v, c.csize, Len(r.res.val.v))
                      val == Crypt(Derive(c, key), xval)
                  IN  IF c.csize > 0 /\ cs # Checksum(c, val)
                      THEN Fail(r.st, "KeyError", key)  \* invalid encrypted value
                      ELSE [st |-> r.st, res |-> Ok(B(val), r.res.at)]

\* _KeyMutMapMix with EncryptedCache._key
EncryptedContains(c, s, key) ==
    IF key.t # "bytes" THEN Fail(s, "TypeError", key)
    ELSE Contains(c.cache, s, HashedKey(c, key))

EncryptedDel(c, s, key) ==
    IF key.t # "bytes" THEN Fail(s, "TypeError", key)
    ELSE DelItem(c.cache, s, HashedKey(c, key))

----------------------------------------------------------------------------
(* The mapping contract: each operation is the method of the node's class. *)

Contains(c, s, key) ==
    CASE c.kind = "Dict" -> StoreContains(c.id, s, key)
      [] c.kind = "Cache" -> StoreContains(c.id, s, key)
      [] c.kind = "Broken" -> Broken(c.id, s, "in")
      [] c.kind = "Debug" -> DebugContains(c, s, key)
      [] c.kind = "Locked" -> LockedContains(c, s, key)
      [] c.kind = "Prefixed" -> PrefixedContains(c, s, key)
      [] c.kind = "Stats" -> StatsContains(c, s, key)
      [] c.kind = "TwoLevel" -> TwoLevelContains(c, s, key)
      [] c.kind = "Encrypted" -> EncryptedContains(c, s, key)

GetItem(c, s, key, pick) ==
    CASE c.kind = "Dict" -> StoreGet(c.id, s, key)
      [] c.kind = "Cache" -> StoreGet(c.id, s, key)
      [] c.kind = "Broken" -> Broken(c.id, s, "get")
      [] c.kind = "Debug" -> DebugGet(c, s, key, pick)
      [] c.kind = "Locked" -> LockedGet(c, s, key, pick)
      [] c.kind = "Prefixed" -> PrefixedGet(c, s, key, pick)
      [] c.kind = "Stats" -> StatsGet(c, s, key, pick)
      [] c.kind = "TwoLevel" -> TwoLevelGet(c, s, key, pick)
      [] c.kind = "Encrypted" -> EncryptedGet(c, s, key, pick)

SetItem(c, s, key, val, pick) ==
    CASE c.kind = "Dict" -> StoreSet(c.id, s, key, val)
      [] c.kind = "Cache" -> BoundedSet(c.id, c.maxsize, s, key, val, pick)
      [] c.kind = "Broken" -> Broken(c.id, s, "set")
      [] c.kind = "Debug" -> DebugSet(c, s, key, val, pick)
      [] c.kind = "Locked" -> LockedSet(c, s, key, val, pick)
      [] c.kind = "Prefixed" -> PrefixedSet(c, s, key, val, pick)
      [] c.kind = "Stats" -> StatsSet(c, s, key, val, pick)
      [] c.kind = "TwoLevel" -> TwoLevelSet(c, s, key, val, pick)
      [] c.kind = "Encrypted" -> EncryptedSet(c, s, key, val, pick)

DelItem(c, s, key) ==
    CASE c.kind = "Dict" -> StoreDel(c.id, s, key)
      [] c.kind = "Cache" -> StoreDel(c.id, s, key)
      [] c.kind = "Broken" -> Broken(c.id, s, "del")
      [] c.kind = "Debug" -> DebugDel(c, s, key)
      [] c.kind = "Locked" -> LockedDel(c, s, key)
      [] c.kind = "Prefixed" -> PrefixedDel(c, s, key)
      [] c.kind = "Stats" -> StatsDel(c, s, key)
      [] c.kind = "TwoLevel" -> TwoLevelDel(c, s, key)
      [] c.kind = "Encrypted" -> EncryptedDel(c, s, key)

Clear(c, s) ==
    CASE c.kind = "Dict" -> StoreClear(c.id, s)
      [] c.kind = "Cache" -> StoreClear(c.id, s)
      [] c.kind = "Debug" -> DebugClear(c, s)
      [] c.kind = "Stats" -> StatsClear(c, s)
      [] c.kind = "TwoLevel" -> TwoLevelClear(c, s)

----------------------------------------------------------------------------
(* Statistics: __len__, hits(), stats() and reset().                       *)
(* A ratio is kept exact, as [num, den]: float(num) / den.  The dict that  *)
(* stats() returns is a record; the empty dict {} is [type |-> 0].         *)

RECURSIVE Length(_, _)
RECURSIVE Hits(_, _)
RECURSIVE Stats(_, _)
RECURSIVE Reset(_, _)

Max(a, b) == IF a >= b THEN a ELSE b

Empty == [type |-> 0]

\* float(num) / den
Divide(num, den) ==
    IF den = 0 THEN Raise("ZeroDivisionError", None, 0)
    ELSE Ok([num |-> num, den |-> den], 0)

\* a hits() that divides by the reads as they are
StatsHits_NoMax(c, s) == Divide(s.stats[c.id].hits, s.stats[c.id].reads)

\* StatsCache.hits
StatsHits(c, s) == Divide(s.stats[c.id].hits, Max(s.stats[c.id].reads, 1))

\* StatsCache.stats
StatsStats(c, s) ==
    LET h == StatsHits(c, s)
        n == Length(c.cache, s)
        own == s.stats[c.id]
    IN  IF h.kind # "ok" THEN h
        ELSE IF n.kind # "ok" THEN n
        ELSE Ok([type |-> 1, tests |-> own.tests, reads |-> own.reads,
                 writes |-> own.writes, dels |-> own.dels, hits |-> own.hits,
                 hit_rate |-> h.val, size |-> n.val], 0)

\* a reset() that forgets the hits
StatsReset_KeepHits(c, s) ==
    [st |-> [s EXCEPT !.stats[c.id] = [ZeroStats EXCEPT !.hits = s.stats[c.id].hits]],
     res |-> Ok(None, 0)]

\* StatsCache.reset
StatsReset(c, s) == [st |-> [s EXCEPT !.stats[c.id] = ZeroStats], res |-> Ok(None, 0)]

\* the stats of one tier, {} when the call raises
TierStats(c, s) == LET r == Stats(c, s) IN IF r.kind = "ok" THEN r.val ELSE Empty

\* TwoLevelCache.stats
TwoLevelStats(c, s) ==
    Ok([type |-> 2, cache1 |-> TierStats(c.cache, s), cache2 |-> TierStats(c.cache2, s)], 0)

\* a hits() that reads a missing tier as zero
TwoLevelHits_Zero(c, s) ==
    LET data == TwoLevelStats(c, s).val
        c1 == data.cache1
        c2 == data.cache2
    IN  IF c1.type = 1 /\ c2.type = 1
        THEN Divide(c1.hits + c2.hits, Max(c1.reads + c2.reads, 1))
        ELSE Divide(0, 1)

\* TwoLevelCache.hits: None unless both tiers give simple stats
TwoLevelHits(c, s) ==
    LET data == TwoLevelStats(c, s).val
        c1 == data.cache1
        c2 == data.cache2
    IN  IF c1.type = 1 /\ c2.type = 1
        THEN Divide(c1.hits + c2.hits, Max(c1.reads + c2.reads, 1))
        ELSE Ok(None, 0)

\* TwoLevelCache.reset: the first cache, then the second
TwoLevelReset(c, s) ==
    LET r1 == Reset(c.cache, s)
    IN  IF r1.res.kind # "ok" THEN r1 ELSE Reset(c.cache2, r1.st)

\* __len__: _MutMapMix forwards it; test.py BrokenCache has none
Length(c, s) ==
    CASE c.kind \in {"Dict", "Cache"} -> Ok(Len(s.store[c.id]), c.id)
      [] c.kind = "Broken" -> Raise("AttributeError", None, c.id)
      [] OTHER -> Length(c.cache, s)

\* hits(): _StatsMix forwards it; the stores have none
Hits(c, s) ==
    CASE c.kind = "Stats" -> StatsHits(c, s)
      [] c.kind = "TwoLevel" -> TwoLevelHits(c, s)
      [] c.kind \in {"Dict", "Cache", "Broken"} -> Raise("AttributeError", None, 0)
      [] OTHER -> Hits(c.cache, s)

\* stats(): _StatsMix forwards it; the stores have none
Stats(c, s) ==
    CASE c.kind = "Stats" -> StatsStats(c, s)
      [] c.kind = "TwoLevel" -> TwoLevelStats(c, s)
      [] c.kind \in {"Dict", "Cache", "Broken"} -> Raise("AttributeError", None, 0)
      [] OTHER -> Stats(c.cache, s)

\* reset(): _StatsMix forwards it; the stores have none
Reset(c, s) ==
    CASE c.kind = "Stats" -> StatsReset(c, s)
      [] c.kind = "TwoLevel" -> TwoLevelReset(c, s)
      [] c.kind = "Debug" -> Reset(c.cache, Debug(s, "reset", None))
      [] c.kind \in {"Dict", "Cache", "Broken"} -> Fail(s, "AttributeError", None)
      [] OTHER -> Reset(c.cache, s)

----------------------------------------------------------------------------
(* The caches built.                                                       *)

Dict(id) == [kind |-> "Dict", id |-> id]
Cache(id, maxsize) == [kind |-> "Cache", id |-> id, maxsize |-> maxsize]
BrokenCache(id) == [kind |-> "Broken", id |-> id]
DebugCache(cache) == [kind |-> "Debug", cache |-> cache]
LockedCache(id, cache) == [kind |-> "Locked", id |-> id, cache |-> cache]
PrefixedCache(cache, prefix) == [kind |-> "Prefixed", prefix |-> prefix, cache |-> cache]
StatsCache(id, cache) == [kind |-> "Stats", id |-> id, cache |-> cache]
TwoLevelCache(cache, cache2, resilient) ==
    [kind |-> "TwoLevel", cache |-> cache, cache2 |-> cache2, resilient |-> resilient]
EncryptedCache(cache, secret, hsize, csize) ==
    [kind |-> "Encrypted", secret |-> secret, hsize |-> hsize, csize |-> csize,
     cache |-> cache]

\* test.py SECRET, shortened to the 16 bytes the constructor asks for at least
SECRET == B(<<105, 110, 99, 114, 101, 100, 105, 98, 108, 101, 32, 115, 101, 99, 114, 101>>)

\* hsize of the EncryptedCache built: the smallest the constructor accepts
HSize == 8

\* the keys and the values the caller uses: "x", b"x"; b"\x01", 2
Keys == {S(<<120>>), B(<<120>>)}
Vals == {B(<<1>>), I(2)}

\* the capacities of the small cache: one entry (it evicts on the second
\* key) and room for every key
Capacities == 1..Cardinality(Keys)

\* two-level caches as test.py builds them: a StatsCache over a small
\* cachetools cache in front of a StatsCache over a large store, or over a
\* store that fails on every operation
TwoLevels ==
    {TwoLevelCache(StatsCache(1, Cache(1, m)), StatsCache(2, second), resilient) :
        m \in Capacities, second \in {Dict(2), BrokenCache(2)}, resilient \in BOOLEAN}

\* one decorator over a cache
Wrappers(c) ==
    {DebugCache(c), LockedCache(1, c), StatsCache(1, c),
     PrefixedCache(c, S(<<102, 46>>)), PrefixedCache(c, B(<<102, 46>>)),
     EncryptedCache(c, SECRET, HSize, 0), EncryptedCache(c, SECRET, HSize, 1)}

Cores == {Dict(1), TwoLevelCache(Cache(1, 1), Dict(2), FALSE)}

\* the stacks: a DictCache and a two-level cache, bare and under each
\* decorator; each decorator over a StatsCache and over an EncryptedCache;
\* prefix over stats over encrypted; a two-level cache over a failing store
Stacks ==
    LET one == UNION {Wrappers(c) : c \in Cores}
        two == UNION {Wrappers(c) : c \in {StatsCache(2, Dict(1)),
                                           EncryptedCache(Dict(1), SECRET, HSize, 1)}}
        three == {PrefixedCache(StatsCache(1, EncryptedCache(Dict(1), SECRET, HSize, 1)),
                                B(<<102, 46>>))}
        failing == {TwoLevelCache(Dict(1), BrokenCache(2), resilient) :
                        resilient \in BOOLEAN}
    IN  Cores \cup one \cup two \cup three \cup failing

----------------------------------------------------------------------------
(* The state machine: a caller running mapping operations one at a time.   *)

\* no callable is cached
NoFun == [kind |-> "none", layers |-> <<>>, invoked |-> <<>>]

NoOp == [op |-> "none", via |-> 0, key |-> None, val |-> None, res |-> Ok(None, 0)]

NoWritten == [k \in Keys |-> None]

IsTwoLevel(c) == c.kind = "TwoLevel"

RECURSIVE IsBroken(_)
\* the store at the bottom of a tier fails on every operation
IsBroken(c) ==
    CASE c.kind = "Broken" -> TRUE
      [] c.kind \in {"Dict", "Cache"} -> FALSE
      [] OTHER -> IsBroken(c.cache)

\* the two-level caches for which the copy of the primary store is kept
Shadowed(c) == IsTwoLevel(c) /\ c.resilient /\ IsBroken(c.cache2)

NoShadow == [st |-> InitSt, res |-> Ok(None, 0)]

\* no thread runs: the caller is alone
NoThreads == <<>>

\* the calls a caller of a StatsCache has made, counted on the caller's side
Count(n, op, res) ==
    CASE op = "in" -> [n EXCEPT !.tests = @ + 1]
      [] op = "get" -> [n EXCEPT !.reads = @ + 1,
                                 !.hits = IF res.kind = "ok" THEN @ + 1 ELSE @]
      [] op = "set" -> [n EXCEPT !.writes = @ + 1]
      [] op = "del" -> [n EXCEPT !.dels = @ + 1]
      [] op = "reset" -> ZeroStats
      [] OTHER -> n

InitWith(caches) ==
    /\ root \in caches
    /\ st = InitSt
    /\ last = NoOp
    /\ prev = NoOp
    /\ nops = 0
    /\ shadow = NoShadow
    /\ written = NoWritten
    /\ direct = FALSE
    /\ calls = ZeroStats
    /\ thr = NoThreads
    /\ views = <<>>
    /\ counter = 0
    /\ fun = NoFun

Init == InitWith(TwoLevels)

InitStack == InitWith(Stacks)

RECURSIVE Evicts(_)
\* whether a cachetools cache, which evicts when full, is part of the tree
Evicts(c) ==
    CASE c.kind = "Cache" -> TRUE
      [] c.kind \in {"Dict", "Broken"} -> FALSE
      [] c.kind = "TwoLevel" -> Evicts(c.cache) \/ Evicts(c.cache2)
      [] OTHER -> Evicts(c.cache)

\* the entries a cachetools cache may evict: any entry it holds
Picks == {1} \cup {i \in 1..Len(st.store[1]) : Evicts(root)}

\* the objects the caller can also reach directly: root (0), root's cache (1)
\* and, for a two-level cache, its second cache (2)
Inner(via) == IF via = 1 THEN root.cache ELSE root.cache2

Inners == IF IsTwoLevel(root) THEN {1, 2}
          ELSE IF root.kind \in {"Dict", "Cache", "Broken"} THEN {} ELSE {1}

Begin(s) == [s EXCEPT !.acc = <<>>]

\* the caches whose callers' calls are counted: a StatsCache, and a two-level
\* cache of two StatsCache as test_two_level_small and test_two_level_ok build
Counted(c) ==
    \/ c.kind = "Stats"
    \/ IsTwoLevel(c) /\ c.cache.kind = "Stats" /\ c.cache2.kind = "Stats"

\* what every operation records
Ran(op, via, key, val, r) ==
    /\ nops < MaxOps
    /\ nops' = nops + 1
    /\ st' = r.st
    /\ prev' = last
    /\ last' = [op |-> op, via |-> via, key |-> key, val |-> val, res |-> r.res]
    /\ root' = root
    /\ calls' = IF Counted(root) /\ via = 0 THEN Count(calls, op, r.res) ELSE calls
    /\ UNCHANGED <<thr, views, counter, fun>>

\* the same operation on the copy of the primary store
Mirror(r) == shadow' = IF Shadowed(root) THEN r ELSE shadow

\* key in cache
In(key) ==
    /\ Ran("in", 0, key, None, Contains(root, Begin(st), key))
    /\ Mirror(Contains(root.cache, Begin(shadow.st), key))
    /\ UNCHANGED <<written, direct>>

\* cache[key]
Get(key, pick) ==
    /\ Ran("get", 0, key, None, GetItem(root, Begin(st), key, pick))
    /\ Mirror(GetItem(root.cache, Begin(shadow.st), key, pick))
    /\ UNCHANGED <<written, direct>>

\* cache[key] = val
Set(key, val, pick) ==
    LET r == SetItem(root, Begin(st), key, val, pick)
    IN  /\ Ran("set", 0, key, val, r)
        /\ Mirror(SetItem(root.cache, Begin(shadow.st), key, val, pick))
        /\ written' = IF r.res.kind = "ok" THEN [written EXCEPT ![key] = val] ELSE written
        /\ UNCHANGED direct

\* del cache[key]
Del(key) ==
    /\ Ran("del", 0, key, None, DelItem(root, Begin(st), key))
    /\ Mirror(DelItem(root.cache, Begin(shadow.st), key))
    /\ written' = [written EXCEPT ![key] = None]
    /\ UNCHANGED direct

\* cache.clear()
ClearAll ==
    /\ HasClear(root)
    /\ Ran("clear", 0, None, None, Clear(root, Begin(st)))
    /\ Mirror(Clear(root.cache, Begin(shadow.st)))
    /\ UNCHANGED <<written, direct>>

\* cache.reset()
ResetAll ==
    /\ Ran("reset", 0, None, None, Reset(root, Begin(st)))
    /\ Mirror(Reset(root.cache, Begin(shadow.st)))
    /\ UNCHANGED <<written, direct>>

\* inner[key] = val, on a cache below root, as the tests do on the tiers
InnerSet(via, key, val, pick) ==
    /\ via \in Inners
    /\ Ran("set", via, key, val, SetItem(Inner(via), Begin(st), key, val, pick))
    /\ Mirror(IF via = 1 THEN SetItem(root.cache, Begin(shadow.st), key, val, pick)
              ELSE shadow)
    /\ direct' = TRUE
    /\ UNCHANGED written

\* del inner[key], on a cache below root
InnerDel(via, key) ==
    /\ via \in Inners
    /\ Ran("del", via, key, None, DelItem(Inner(via), Begin(st), key))
    /\ Mirror(IF via = 1 THEN DelItem(root.cache, Begin(shadow.st), key) ELSE shadow)
    /\ direct' = TRUE
    /\ UNCHANGED written

Next ==
    \/ \E key \in Keys : In(key)
    \/ \E key \in Keys, pick \in Picks : Get(key, pick)
    \/ \E key \in Keys, val \in Vals, pick \in Picks : Set(key, val, pick)
    \/ \E key \in Keys : Del(key)
    \/ ClearAll
    \/ ResetAll
    \/ \E via \in 1..2, key \in Keys, val \in Vals, pick \in Picks :
          InnerSet(via, key, val, pick)
    \/ \E via \in 1..2, key \in Keys : InnerDel(via, key)

Spec == Init /\ [][Next]_vars

SpecStack == InitStack /\ [][Next]_vars

----------------------------------------------------------------------------
(* Threads sharing one LockedCache, as test_threads runs them.  A call is  *)
(* not one step: a thread waits for the lock, and inside it loads a        *)
(* counter of the StatsCache, stores it incremented, runs the operation of *)
(* the store, counts the hit of a get that returned, and leaves the        *)
(* "with", each a step of its own that other threads may interleave with.  *)

Threads == 1..2

ThreadedCaches == {LockedCache(1, StatsCache(1, Dict(1))), LockedCache(1, Dict(1))}

Idle == [pc |-> "idle", op |-> "none", key |-> None, val |-> None, reg |-> 0,
         res |-> Ok(None, 0)]

InitThreads ==
    /\ root \in ThreadedCaches
    /\ st = InitSt
    /\ last = NoOp
    /\ prev = NoOp
    /\ nops = 0
    /\ shadow = NoShadow
    /\ written = NoWritten
    /\ direct = FALSE
    /\ calls = ZeroStats
    /\ thr = [t \in Threads |-> Idle]
    /\ views = <<>>
    /\ counter = 0
    /\ fun = NoFun

\* the counter a StatsCache method increments first
CounterOf(op) ==
    CASE op = "in" -> "tests"
      [] op = "get" -> "reads"
      [] op = "set" -> "writes"
      [] op = "del" -> "dels"

\* self._cache.__contains__ / __getitem__ / __setitem__ / __delitem__
Perform(c, s, op, key, val) ==
    CASE op = "in" -> Contains(c, s, key)
      [] op = "get" -> GetItem(c, s, key, 1)
      [] op = "set" -> SetItem(c, s, key, val, 1)
      [] op = "del" -> DelItem(c, s, key)

Counts(c) == c.kind = "Stats"

Quiet == UNCHANGED <<root, prev, shadow, written, direct, views, counter, fun>>

\* thread t calls an operation of the LockedCache
Call(t, op, key, val) ==
    /\ thr[t].pc = "idle"
    /\ nops < MaxOps
    /\ nops' = nops + 1
    /\ thr' = [thr EXCEPT ![t] = [Idle EXCEPT !.pc = "lock", !.op = op, !.key = key,
                                               !.val = val]]
    /\ UNCHANGED <<st, last, calls>>
    /\ Quiet

\* with self._lock: entered
Enter(t) ==
    /\ thr[t].pc = "lock"
    /\ LockFree(st, root.id)
    /\ st' = Acquire(st, root.id)
    /\ thr' = [thr EXCEPT ![t].pc = IF Counts(root.cache) THEN "count" ELSE "inner"]
    /\ UNCHANGED <<nops, last, calls>>
    /\ Quiet

\* self._reads += 1, first half: the counter is read
Load(t) ==
    /\ thr[t].pc \in {"count", "hit"}
    /\ thr' = [thr EXCEPT ![t].pc = IF @ = "count" THEN "add" ELSE "addhit",
                          ![t].reg = st.stats[root.cache.id][IF thr[t].pc = "count"
                                                             THEN CounterOf(thr[t].op)
                                                             ELSE "hits"]]
    /\ UNCHANGED <<st, nops, last, calls>>
    /\ Quiet

\* self._reads += 1, second half: the value read, plus one, is written
Store(t) ==
    /\ thr[t].pc \in {"add", "addhit"}
    /\ st' = [st EXCEPT !.stats[root.cache.id][IF thr[t].pc = "add"
                                                THEN CounterOf(thr[t].op)
                                                ELSE "hits"] = thr[t].reg + 1]
    /\ thr' = [thr EXCEPT ![t].pc = IF @ = "add" THEN "inner" ELSE "unlock"]
    /\ UNCHANGED <<nops, last, calls>>
    /\ Quiet

\* the operation of the cache below
Run(t) ==
    LET below == IF Counts(root.cache) THEN root.cache.cache ELSE root.cache
        r == Perform(below, Begin(st), thr[t].op, thr[t].key, thr[t].val)
    IN  /\ thr[t].pc = "inner"
        /\ st' = r.st
        /\ thr' = [thr EXCEPT ![t].res = r.res,
                              ![t].pc = IF Counts(root.cache) /\ thr[t].op = "get"
                                           /\ r.res.kind = "ok"
                                        THEN "hit" ELSE "unlock"]
        /\ UNCHANGED <<nops, last, calls>>
        /\ Quiet

\* the "with" is left and the call returns or raises
Leave(t) ==
    LET r == Release([st |-> st, res |-> thr[t].res], root.id)
    IN  /\ thr[t].pc = "unlock"
        /\ st' = r.st
        /\ thr' = [thr EXCEPT ![t].pc = "idle"]
        /\ last' = [op |-> thr[t].op, via |-> t, key |-> thr[t].key, val |-> thr[t].val,
                    res |-> r.res]
        /\ calls' = Count(calls, thr[t].op, r.res)
        /\ UNCHANGED nops
        /\ Quiet

NextThreads ==
    \E t \in Threads :
        \/ \E key \in Keys : Call(t, "in", key, None)
        \/ \E key \in Keys : Call(t, "get", key, None)
        \/ \E key \in Keys, val \in Vals : Call(t, "set", key, val)
        \/ \E key \in Keys : Call(t, "del", key, None)
        \/ Enter(t)
        \/ Load(t)
        \/ Store(t)
        \/ Run(t)
        \/ Leave(t)

SpecThreads == InitThreads /\ [][NextThreads]_vars

----------------------------------------------------------------------------
(* Prefixed views sharing one backing store, as test_key_ct builds them:   *)
(* the caller uses the store itself (view 0) and two PrefixedCache views   *)
(* of it.                                                                  *)

\* the prefixes "f.", "g." and "f.g.", each ending in the separator; the keys
\* "x" and "g.x"
Prefixes == {S(<<102, 46>>), S(<<103, 46>>), S(<<102, 46, 103, 46>>)}
ViewKeys == {S(<<120>>), S(<<103, 46, 120>>)}

ViewPairs ==
    {<<PrefixedCache(Dict(1), pq[1]), PrefixedCache(Dict(1), pq[2])>> :
        pq \in {x \in Prefixes \X Prefixes : x[1] # x[2]}}

\* the keys set through each view so far
NoneWritten == [i \in 0..2 |-> {}]

InitViews ==
    /\ root = Dict(1)
    /\ views \in ViewPairs
    /\ st = InitSt
    /\ last = NoOp
    /\ prev = NoOp
    /\ nops = 0
    /\ shadow = NoShadow
    /\ written = NoneWritten
    /\ direct = FALSE
    /\ calls = ZeroStats
    /\ thr = NoThreads
    /\ counter = 0
    /\ fun = NoFun

View(i) == IF i = 0 THEN root ELSE views[i]

\* key in view
ViewIn(i, key) ==
    /\ Ran("in", i, key, None, Contains(View(i), Begin(st), key))
    /\ UNCHANGED <<shadow, written, direct>>

\* view[key]
ViewGet(i, key) ==
    /\ Ran("get", i, key, None, GetItem(View(i), Begin(st), key, 1))
    /\ UNCHANGED <<shadow, written, direct>>

\* view[key] = val
ViewSet(i, key, val) ==
    /\ Ran("set", i, key, val, SetItem(View(i), Begin(st), key, val, 1))
    /\ written' = [written EXCEPT ![i] = @ \cup {key}]
    /\ UNCHANGED <<shadow, direct>>

\* del view[key]
ViewDel(i, key) ==
    /\ Ran("del", i, key, None, DelItem(View(i), Begin(st), key))
    /\ UNCHANGED <<shadow, written, direct>>

NextViews ==
    \E i \in 0..2, key \in ViewKeys :
        \/ ViewIn(i, key)
        \/ ViewGet(i, key)
        \/ \E val \in Vals : ViewSet(i, key, val)
        \/ ViewDel(i, key)

SpecViews == InitViews /\ [][NextViews]_vars

----------------------------------------------------------------------------
(* AutoPrefixedCache: the prefix is the class counter, as bytes, through a *)
(* binary-to-text encoder, followed by the separator.                      *)

RECURSIVE BitLength(_)
\* int.bit_length
BitLength(n) == IF n = 0 THEN 0 ELSE 1 + BitLength(n \div 2)

RECURSIVE Power(_, _)
Power(b, e) == IF e = 0 THEN 1 ELSE b * Power(b, e - 1)

\* int.to_bytes(length, byteorder="big")
ToBytes(n, length) == [i \in 1..length |-> (n \div Power(256, length - i)) % 256]

\* one group of an encoder: the first k bytes of bs, zero-padded to size bytes
Group(bs, k, size) == [i \in 1..size |-> IF i <= k THEN bs[i] ELSE 0]

\* base64.b16encode: two upper-case hexadecimal digits per byte
HexDigit(d) == IF d < 10 THEN 48 + d ELSE 55 + d
B16Encode(bs) ==
    [i \in 1..(2 * Len(bs)) |->
        HexDigit(IF i % 2 = 1 THEN bs[(i + 1) \div 2] \div 16 ELSE bs[i \div 2] % 16)]

\* the base64 alphabet: A-Z a-z 0-9 + /
B64Char(d) ==
    IF d < 26 THEN 65 + d
    ELSE IF d < 52 THEN 71 + d
    ELSE IF d < 62 THEN d - 4
    ELSE IF d = 62 THEN 43 ELSE 47

RECURSIVE B64Encode(_)
\* base64.b64encode: four characters per three bytes, "=" padding
B64Encode(bs) ==
    IF Len(bs) = 0 THEN <<>>
    ELSE LET k == IF Len(bs) < 3 THEN Len(bs) ELSE 3
             g == Group(bs, k, 3)
             d == <<g[1] \div 4, ((g[1] % 4) * 16) + (g[2] \div 16),
                    ((g[2] % 16) * 4) + (g[3] \div 64), g[3] % 64>>
         IN  [i \in 1..4 |-> IF i <= k + 1 THEN B64Char(d[i]) ELSE 61]
             \o B64Encode(SubSeq(bs, k + 1, Len(bs)))

RECURSIVE DivMod85(_, _, _)
\* a base-256 number divided by 85: [q |-> the quotient's bytes, r |-> the rest]
DivMod85(g, i, carry) ==
    IF i > Len(g) THEN [q |-> <<>>, r |-> carry]
    ELSE LET x == (carry * 256) + g[i]
             rest == DivMod85(g, i + 1, x % 85)
         IN  [q |-> <<x \div 85>> \o rest.q, r |-> rest.r]

RECURSIVE Base85(_, _)
\* the n base-85 digits of a group of bytes, most significant first
Base85(g, n) ==
    IF n = 0 THEN <<>>
    ELSE LET dm == DivMod85(g, 1, 0) IN Append(Base85(dm.q, n - 1), dm.r)

RECURSIVE A85Encode(_)
\* base64.a85encode: five characters from "!" on per four bytes, "z" for a
\* group of four zero bytes, a last group of k bytes cut to k + 1 characters
A85Encode(bs) ==
    IF Len(bs) = 0 THEN <<>>
    ELSE LET k == IF Len(bs) < 4 THEN Len(bs) ELSE 4
             g == Group(bs, k, 4)
             d == Base85(g, 5)
         IN  (IF k = 4 /\ g = <<0, 0, 0, 0>> THEN <<122>>
              ELSE [i \in 1..(k + 1) |-> 33 + d[i]])
             \o A85Encode(SubSeq(bs, k + 1, Len(bs)))

\* AutoPrefixedCache._METHODS, three of them
Methods == {"b64", "b16", "a85"}

Encoder(method, bs) ==
    CASE method = "b64" -> B64Encode(bs)
      [] method = "b16" -> B16Encode(bs)
      [] method = "a85" -> A85Encode(bs)

\* the prefix AutoPrefixedCache.__init__ builds from the counter
AutoPrefix(n, sep, method) ==
    LET length == Max(1, (BitLength(n) + 7) \div 8)
    IN  S(Encoder(method, ToBytes(n, length)) \o sep)

\* the default separator "."
Sep == <<46>>

\* the instances the caller compares: a pair of those it built
Kept == 1..2

InitAuto ==
    /\ root = Dict(1)
    /\ views = <<>>
    /\ counter = 0
    /\ fun = NoFun
    /\ st = InitSt
    /\ last = NoOp
    /\ prev = NoOp
    /\ nops = 0
    /\ shadow = NoShadow
    /\ written = NoWritten
    /\ direct = FALSE
    /\ calls = ZeroStats
    /\ thr = NoThreads

Built(res) == [op |-> "new", via |-> 0, key |-> None, val |-> None, res |-> res]

\* the characters of a method's name
Name(method) ==
    CASE method = "b64" -> <<98, 54, 52>>
      [] method = "b16" -> <<98, 49, 54>>
      [] method = "a85" -> <<97, 56, 53>>
      [] method = "hex" -> <<104, 101, 120>>
      [] method = "bad-method" -> <<98, 97, 100, 45, 109, 101, 116, 104, 111, 100>>

\* f"invalid conversion method: {method}"
InvalidMethod(method) ==
    S(<<105, 110, 118, 97, 108, 105, 100, 32, 99, 111, 110, 118, 101, 114, 115, 105,
        111, 110, 32, 109, 101, 116, 104, 111, 100, 58, 32>> \o Name(method))

\* a constructor that takes its counter value before it looks at the method
NewAuto_CountFirst(method, keep) ==
    /\ counter < MaxCounter
    /\ counter' = counter + 1
    /\ IF method \notin Methods
       THEN /\ last' = Built(Raise("Exception", InvalidMethod(method), 0))
            /\ UNCHANGED <<nops, views>>
       ELSE LET prefix == AutoPrefix(counter, Sep, method)
            IN  /\ nops' = nops + 1
                /\ last' = Built(Ok(None, 0))
                /\ views' = IF keep /\ Len(views) < Cardinality(Kept)
                            THEN Append(views, PrefixedCache(root, prefix))
                            ELSE views
    /\ UNCHANGED <<root, st, prev, shadow, written, direct, calls, thr, fun>>

\* AutoPrefixedCache(cache, method=method), kept by the caller or not; nops
\* is the number of instances built
NewAuto(method, keep) ==
    /\ counter < MaxCounter
    /\ IF method \notin Methods
       THEN /\ UNCHANGED <<counter, nops, views>>
            /\ last' = Built(Raise("Exception", InvalidMethod(method), 0))
       ELSE LET prefix == AutoPrefix(counter, Sep, method)
            IN  /\ counter' = counter + 1
                /\ nops' = nops + 1
                /\ last' = Built(Ok(None, 0))
                /\ views' = IF keep /\ Len(views) < Cardinality(Kept)
                            THEN Append(views, PrefixedCache(root, prefix))
                            ELSE views
    /\ UNCHANGED <<root, st, prev, shadow, written, direct, calls, thr, fun>>

\* the methods asked for: the three of _METHODS and two it does not have
Asked == Methods \cup {"bad-method", "hex"}

NextAuto == \E method \in Asked, keep \in BOOLEAN : NewAuto(method, keep)

SpecAuto == InitAuto /\ [][NextAuto]_vars

----------------------------------------------------------------------------
(* Threads building AutoPrefixedCache instances over one store.  The class *)
(* attribute _COUNTER is read and written with no lock, so a construction  *)
(* is not one step: it reads the counter for the length, reads it again    *)
(* for the bytes, loads it and stores it plus one, then initialises the    *)
(* PrefixedCache; the threads interleave between any two of these.         *)

MaxBuilds == 2   \* instances each thread builds

Resting == [pc |-> "idle", method |-> "b64", length |-> 0, prefix |-> None, reg |-> 0,
            built |-> 0]

InitBuild ==
    /\ root = Dict(1)
    /\ views = <<>>
    /\ counter = 0
    /\ fun = NoFun
    /\ thr = [t \in Threads |-> Resting]
    /\ st = InitSt
    /\ last = NoOp
    /\ prev = NoOp
    /\ nops = 0
    /\ shadow = NoShadow
    /\ written = NoWritten
    /\ direct = FALSE
    /\ calls = ZeroStats

\* what every step of a construction leaves alone
Step(t, pc, next) ==
    /\ thr[t].pc = pc
    /\ thr' = [thr EXCEPT ![t] = next]
    /\ UNCHANGED <<root, st, last, prev, shadow, written, direct, calls, fun>>

\* AutoPrefixedCache(cache, method=method): the method is one of _METHODS
Construct(t, method) ==
    /\ thr[t].built < MaxBuilds
    /\ Step(t, "idle", [thr[t] EXCEPT !.pc = "length", !.method = method])
    /\ UNCHANGED <<counter, views, nops>>

\* length = max(1, (_COUNTER.bit_length() + 7) // 8)
ReadLength(t) ==
    /\ Step(t, "length", [thr[t] EXCEPT !.pc = "encode",
                                        !.length = Max(1, (BitLength(counter) + 7) \div 8)])
    /\ UNCHANGED <<counter, views, nops>>

\* prefix = encoder(_COUNTER.to_bytes(length)).decode("ASCII")
EncodeCounter(t) ==
    /\ Step(t, "encode",
            [thr[t] EXCEPT !.pc = "load",
                           !.prefix = S(Encoder(thr[t].method,
                                                ToBytes(counter, thr[t].length)) \o Sep)])
    /\ UNCHANGED <<counter, views, nops>>

\* _COUNTER += 1, the load
LoadCounter(t) ==
    /\ Step(t, "load", [thr[t] EXCEPT !.pc = "store", !.reg = counter])
    /\ UNCHANGED <<counter, views, nops>>

\* _COUNTER += 1, the store
StoreCounter(t) ==
    /\ Step(t, "store", [thr[t] EXCEPT !.pc = "init"])
    /\ counter' = thr[t].reg + 1
    /\ UNCHANGED <<views, nops>>

\* super().__init__(cache, prefix + sep): the instance is built
InitPrefixed(t) ==
    /\ Step(t, "init", [thr[t] EXCEPT !.pc = "idle", !.built = @ + 1])
    /\ views' = Append(views, PrefixedCache(root, thr[t].prefix))
    /\ nops' = nops + 1
    /\ UNCHANGED counter

NextBuild ==
    \/ \E t \in Threads, method \in Methods : Construct(t, method)
    \/ \E t \in Threads : ReadLength(t)
    \/ \E t \in Threads : EncodeCounter(t)
    \/ \E t \in Threads : LoadCounter(t)
    \/ \E t \in Threads : StoreCounter(t)
    \/ \E t \in Threads : InitPrefixed(t)

SpecBuild == InitBuild /\ [][NextBuild]_vars

----------------------------------------------------------------------------
(* Threads sharing one two-level cache.  An operation of the two-level     *)
(* cache is not one step: __getitem__ reads the first cache, on a miss     *)
(* reads the second, then writes the first; __setitem__ writes the second  *)
(* cache, then the first.  Each operation of a tier is one step; a lock,   *)
(* if any, is held for one tier's operation when it wraps that tier and    *)
(* for the whole sequence when it wraps the two-level cache.               *)

\* a two-level cache bare, over a locked first cache, and under a lock
TieredCaches ==
    {TwoLevelCache(Dict(1), Dict(2), FALSE),
     TwoLevelCache(LockedCache(1, Dict(1)), Dict(2), FALSE),
     LockedCache(1, TwoLevelCache(Dict(1), Dict(2), FALSE))}

\* the second cache as the threads find it: empty, or holding one entry that
\* the first cache does not hold (written when the first cache was another,
\* or before it was cleared)
Found == {<<>>} \cup {<<[k |-> key, v |-> val]>> : key \in Keys, val \in Vals}

InitTiers ==
    /\ root \in TieredCaches
    /\ \E found \in Found : st = [InitSt EXCEPT !.store[2] = found]
    /\ thr = [t \in Threads |-> Idle]
    /\ last = NoOp
    /\ prev = NoOp
    /\ nops = 0
    /\ shadow = NoShadow
    /\ written = NoWritten
    /\ direct = FALSE
    /\ calls = ZeroStats
    /\ views = <<>>
    /\ counter = 0
    /\ fun = NoFun

\* whether one lock wraps the two-level cache, and the two-level cache itself
Guarded == root.kind = "Locked"
Tiers == IF Guarded THEN root.cache ELSE root

\* what no step of a thread changes
Still == UNCHANGED <<root, shadow, written, direct, views, counter, calls, fun>>

\* thread t calls cache[key] or cache[key] = val
TierCall(t, op, key, val) ==
    /\ thr[t].pc = "idle"
    /\ nops < MaxOps
    /\ nops' = nops + 1
    /\ thr' = [thr EXCEPT ![t] = [Idle EXCEPT !.pc = IF Guarded THEN "lock" ELSE "first",
                                               !.op = op, !.key = key, !.val = val]]
    /\ UNCHANGED <<st, last, prev>>
    /\ Still

\* a LockedCache whose "with" does not wait
TierLock_Open(t) ==
    /\ thr[t].pc = "lock"
    /\ st' = Acquire(st, root.id)
    /\ thr' = [thr EXCEPT ![t].pc = "first"]
    /\ UNCHANGED <<nops, last, prev>>
    /\ Still

\* LockedCache over the two-level cache: with self._lock entered
TierLock(t) ==
    /\ thr[t].pc = "lock"
    /\ LockFree(st, root.id)
    /\ st' = Acquire(st, root.id)
    /\ thr' = [thr EXCEPT ![t].pc = "first"]
    /\ UNCHANGED <<nops, last, prev>>
    /\ Still

\* __getitem__: self._cache.__getitem__(key), returned unless KeyError;
\* __setitem__: self._cache2.__setitem__(key, val);
\* __delitem__: self._cache2.__delitem__(key), its KeyError passed over
TierFirst(t) ==
    LET r == CASE thr[t].op = "get" -> GetItem(Tiers.cache, Begin(st), thr[t].key, 1)
               [] thr[t].op = "set" -> SetItem(Tiers.cache2, Begin(st), thr[t].key,
                                               thr[t].val, 1)
               [] thr[t].op = "del" -> DelItem(Tiers.cache2, Begin(st), thr[t].key)
        on == CASE thr[t].op = "get" -> r.res.kind = "KeyError"
                [] thr[t].op = "set" -> r.res.kind = "ok" \/ Tiers.resilient
                [] thr[t].op = "del" -> ~Failed(r.res) \/ Tiers.resilient
    IN  /\ thr[t].pc = "first"
        /\ st' = r.st
        /\ thr' = [thr EXCEPT ![t].res = r.res, ![t].pc = IF on THEN "second" ELSE "done"]
        /\ UNCHANGED <<nops, last, prev>>
        /\ Still

\* a __delitem__ that leaves the first cache alone
TierSecond_KeepFirst(t) ==
    LET r == CASE thr[t].op = "get" -> GetItem(Tiers.cache2, Begin(st), thr[t].key, 1)
               [] thr[t].op = "set" -> SetItem(Tiers.cache, Begin(st), thr[t].key,
                                               thr[t].val, 1)
               [] thr[t].op = "del" -> [st |-> st, res |-> thr[t].res]
    IN  /\ thr[t].pc = "second"
        /\ st' = r.st
        /\ thr' = [thr EXCEPT
                     ![t].res = IF thr[t].op = "get" /\ r.res.kind = "KeyError"
                                THEN @ ELSE r.res,
                     ![t].pc = IF thr[t].op = "get" /\ r.res.kind = "ok"
                               THEN "backfill" ELSE "done"]
        /\ UNCHANGED <<nops, last, prev>>
        /\ Still

\* __getitem__: val = self._cache2.__getitem__(key), KeyError raises the
\* first cache's; __setitem__: return self._cache.__setitem__(key, val);
\* __delitem__: return self._cache.__delitem__(key)
TierSecond(t) ==
    LET r == CASE thr[t].op = "get" -> GetItem(Tiers.cache2, Begin(st), thr[t].key, 1)
               [] thr[t].op = "set" -> SetItem(Tiers.cache, Begin(st), thr[t].key,
                                               thr[t].val, 1)
               [] thr[t].op = "del" -> DelItem(Tiers.cache, Begin(st), thr[t].key)
    IN  /\ thr[t].pc = "second"
        /\ st' = r.st
        /\ thr' = [thr EXCEPT
                     ![t].res = IF thr[t].op = "get" /\ r.res.kind = "KeyError"
                                THEN @ ELSE r.res,
                     ![t].pc = IF thr[t].op = "get" /\ r.res.kind = "ok"
                               THEN "backfill" ELSE "done"]
        /\ UNCHANGED <<nops, last, prev>>
        /\ Still

\* __getitem__: self._cache.__setitem__(key, val); return val
TierBackfill(t) ==
    LET r == SetItem(Tiers.cache, Begin(st), thr[t].key, thr[t].res.val, 1)
    IN  /\ thr[t].pc = "backfill"
        /\ st' = r.st
        /\ thr' = [thr EXCEPT ![t].res = IF r.res.kind = "ok" THEN @ ELSE r.res,
                              ![t].pc = "done"]
        /\ UNCHANGED <<nops, last, prev>>
        /\ Still

\* the call returns or raises; the lock around it, if any, is released
TierReturn(t) ==
    /\ thr[t].pc = "done"
    /\ st' = IF Guarded THEN Release([st |-> st, res |-> thr[t].res], root.id).st ELSE st
    /\ thr' = [thr EXCEPT ![t] = Idle]
    /\ prev' = last
    /\ last' = [op |-> thr[t].op, via |-> t, key |-> thr[t].key, val |-> thr[t].val,
                res |-> thr[t].res]
    /\ UNCHANGED nops
    /\ Still

NextTiers ==
    \E t \in Threads :
        \/ \E key \in Keys : TierCall(t, "get", key, None)
        \/ \E key \in Keys, val \in Vals : TierCall(t, "set", key, val)
        \/ TierLock(t)
        \/ TierFirst(t)
        \/ TierSecond(t)
        \/ TierBackfill(t)
        \/ TierReturn(t)

SpecTiers == InitTiers /\ [][NextTiers]_vars

----------------------------------------------------------------------------
(* The cached decorator and the batch helpers.  A cached callable is the   *)
(* original under its cache layers, outermost first: each layer is the     *)
(* wrapper of cachetools.cached around what is below it, __wrapped__.      *)

\* the cache every layer is built on, as test_cached has it
CachedOver == StatsCache(1, Dict(1))

\* the argument lists of the calls: one int, as p1(i) of the tests
Args == {<<0>>, <<2>>}

\* the callable, p1 of test_autoprefix_cache: i + 1
Original(args) == I(args[1] + 1)

\* cachetools.keys.hashkey(*args), the default key: the tuple of the arguments
HashKey(args) == T(args)

\* the names: sum_n2, which exists, and no_such_method, which does not
Target == <<115, 117, 109, 95, 110, 50>>
Missing == <<110, 111, 95, 115, 117, 99, 104, 95, 109, 101, 116, 104, 111, 100>>

\* the prefixes of the batch helpers: "2." and "x."
BatchPrefixes == {S(<<50, 46>>), S(<<120, 46>>)}

\* the callable as the program has it before the calls: plain, decorated
\* with cached(cache), or decorated twice
Decorated ==
    {<<>>, <<CachedOver>>, <<PrefixedCache(CachedOver, S(<<49, 46>>)), CachedOver>>}

InitCached ==
    /\ root = CachedOver
    /\ \E kind \in {"function", "method"}, layers \in Decorated :
          fun = [kind |-> kind, layers |-> layers, invoked |-> [a \in Args |-> 0],
                 wrapped |-> 0]
    /\ st = InitSt
    /\ last = NoOp
    /\ prev = NoOp
    /\ nops = 0
    /\ shadow = NoShadow
    /\ written = NoWritten
    /\ direct = FALSE
    /\ calls = ZeroStats
    /\ thr = NoThreads
    /\ views = <<>>
    /\ counter = 0

RECURSIVE wrapper(_, _, _, _)

\* a wrapper that does not store what the callable returned
wrapper_NoStore(layers, s, n, args) ==
    IF layers = <<>> THEN [st |-> s, n |-> n + 1, res |-> Ok(Original(args), 0)]
    ELSE LET r == GetItem(layers[1], s, HashKey(args), 1)
         IN  IF r.res.kind # "KeyError" THEN [st |-> r.st, n |-> n, res |-> r.res]
             ELSE wrapper(Tail(layers), r.st, n, args)

\* the wrapper of cachetools.cached: k = key(*args); return cache[k] unless
\* KeyError; v = func(*args); cache[k] = v unless ValueError; return v.
\* n counts the runs of the original callable.
wrapper(layers, s, n, args) ==
    IF layers = <<>> THEN [st |-> s, n |-> n + 1, res |-> Ok(Original(args), 0)]
    ELSE LET k == HashKey(args)
             r == GetItem(layers[1], s, k, 1)
         IN  IF r.res.kind # "KeyError" THEN [st |-> r.st, n |-> n, res |-> r.res]
             ELSE LET v == wrapper(Tail(layers), r.st, n, args)
                      w == SetItem(layers[1], v.st, k, v.res.val, 1)
                  IN  IF v.res.kind # "ok" THEN v
                      ELSE IF w.res.kind \in {"ok", "ValueError"}
                      THEN [st |-> w.st, n |-> v.n, res |-> v.res]
                      ELSE [st |-> w.st, n |-> v.n, res |-> w.res]

\* a cache_in that reads the entry
cache_in_Get(layers, s, args) ==
    LET r == GetItem(layers[1], s, HashKey(args), 1)
    IN  [st |-> r.st,
         res |-> IF Failed(r.res) THEN r.res ELSE Ok(Bool(r.res.kind = "ok"), 0)]

\* cached.cache_in: key = fun.cache_key(*args); return key in fun.cache
cache_in(layers, s, args) == Contains(layers[1], s, HashKey(args))

\* a cache_del that deletes without asking
cache_del_Always(layers, s, args) ==
    LET d == DelItem(layers[1], s, HashKey(args))
    IN  [st |-> d.st, res |-> IF d.res.kind = "ok" THEN Ok(Bool(TRUE), 0) ELSE d.res]

\* cached.cache_del: key_in = key in fun.cache; if key_in: del fun.cache[key];
\* return key_in
cache_del(layers, s, args) ==
    LET k == HashKey(args)
        r == Contains(layers[1], s, k)
        d == DelItem(layers[1], r.st, k)
    IN  IF r.res.kind = "ok" /\ r.res.val = Bool(TRUE)
        THEN IF d.res.kind = "ok" THEN [st |-> d.st, res |-> r.res] ELSE d
        ELSE r

\* an unwrapping that keeps the layers
Unwrapped_Keep(layers) == layers

RECURSIVE Unwrapped(_)
\* while hasattr(f, "__wrapped__"): f = f.__wrapped__
Unwrapped(layers) == IF layers = <<>> THEN layers ELSE Unwrapped(Tail(layers))

\* the message of the failed assert: cacheMethods' is
\* f"cannot cache missing method {fun} on {obj}", with str(obj) "Object
\* test_methods"; cacheFunctions' is the plain string
\* "caching functions: {fun} not found"
NotFound(kind, name) ==
    IF kind = "method"
    THEN S(<<99, 97, 110, 110, 111, 116, 32, 99, 97, 99, 104, 101, 32, 109, 105, 115,
             115, 105, 110, 103, 32, 109, 101, 116, 104, 111, 100, 32>> \o name
           \o <<32, 111, 110, 32>>
           \o <<79, 98, 106, 101, 99, 116, 32, 116, 101, 115, 116, 95, 109, 101, 116,
                104, 111, 100, 115>>)
    ELSE S(<<99, 97, 99, 104, 105, 110, 103, 32, 102, 117, 110, 99, 116, 105, 111, 110,
             115, 58, 32, 123, 102, 117, 110, 125, 32, 110, 111, 116, 32, 102, 111, 117,
             110, 100>>)

RECURSIVE cacheFunctions(_, _, _, _)
\* cacheMethods and cacheFunctions: for each name in turn, assert that it
\* exists, unwrap what it names and replace it by cached(gen(cache, prefix))
\* of the original; gen is PrefixedCache
cacheFunctions(cache, f, names, prefix) ==
    IF names = <<>> THEN [fun |-> f, res |-> Ok(None, 0)]
    ELSE IF Head(names) # Target
    THEN [fun |-> f, res |-> Raise("AssertionError", NotFound(f.kind, Head(names)), 0)]
    ELSE cacheFunctions(cache,
                        [f EXCEPT !.layers = <<PrefixedCache(cache, prefix)>>
                                                \o Unwrapped(f.layers),
                                  !.wrapped = @ + 1],
                        Tail(names), prefix)

\* what every step on the cached callable records
Called(op, args, s, res) ==
    /\ nops < MaxOps
    /\ nops' = nops + 1
    /\ st' = s
    /\ prev' = last
    /\ last' = [op |-> op, via |-> 0, key |-> args, val |-> None, res |-> res]
    /\ UNCHANGED <<root, shadow, written, direct, calls, thr, views, counter>>

\* f(*args)
CallFun(args) ==
    LET r == wrapper(fun.layers, Begin(st), 0, args)
    IN  /\ Called("call", T(args), r.st, r.res)
        /\ fun' = [fun EXCEPT !.invoked[args] = @ + r.n]

\* f.cache_in(*args)
CacheIn(args) ==
    LET r == cache_in(fun.layers, Begin(st), args)
    IN  /\ fun.layers # <<>>
        /\ Called("cache_in", T(args), r.st, r.res)
        /\ UNCHANGED fun

\* f.cache_del(*args)
CacheDel(args) ==
    LET r == cache_del(fun.layers, Begin(st), args)
    IN  /\ fun.layers # <<>>
        /\ Called("cache_del", T(args), r.st, r.res)
        /\ UNCHANGED fun

\* cacheFunctions(cache, globals(), name="2.", ...) on a function,
\* cacheMethods(cache, obj, name="2.", ...) on a method
Wrap(names, prefix) ==
    LET r == cacheFunctions(root, fun, names, prefix)
    IN  /\ Called("wrap", None, st, r.res)
        /\ fun' = r.fun

\* the names given to a batch helper
Batches == {<<Target>>, <<Missing>>, <<Target, Missing>>, <<Missing, Target>>}

NextCached ==
    \/ \E args \in Args : CallFun(args)
    \/ \E args \in Args : CacheIn(args)
    \/ \E args \in Args : CacheDel(args)
    \/ \E names \in Batches, prefix \in BatchPrefixes : Wrap(names, prefix)

SpecCached == InitCached /\ [][NextCached]_vars

----------------------------------------------------------------------------
(* What the properties below read.                                         *)

\* whether key is in cache c, and what c[key] gives, in state s
Holds(c, s, key) ==
    LET r == Contains(c, s, key).res IN r.kind = "ok" /\ r.val = Bool(TRUE)
Lookup(c, s, key) == GetItem(c, s, key, 1).res

\* the value leaf store id holds for key
ValueAt(id, s, key) == s.store[id][Index(s.store[id], key)].v

\* the operation that just ran was op, called on the cache itself
Did(rec, op) == rec.op = op /\ rec.via = 0

\* this step runs op, on the cache itself
Doing(op) == nops' = nops + 1 /\ last'.op = op /\ last'.via = 0

\* the leaf stores the operation that just ran went to, in order
Touched(s) == [i \in 1..Len(s.acc) |-> s.acc[i].at]

Never(seq, x) == \A i \in 1..Len(seq) : seq[i] # x

\* every x of the sequence comes before every y
AllBefore(seq, x, y) == \A i, j \in 1..Len(seq) : (seq[i] = y /\ seq[j] = x) => j < i

----------------------------------------------------------------------------
(* C1. Round trip: on every stack, when cache[k] = v has succeeded and the *)
(* very next operation is cache[k], it returns v.                          *)

RoundTrip ==
    (Did(prev, "set") /\ prev.res.kind = "ok" /\ Did(last, "get") /\ last.key = prev.key)
        => (last.res.kind = "ok" /\ last.res.val = prev.val)

\* the round trip through prefix over stats over encrypted
RoundTripSeen ==
    /\ root.kind = "Prefixed" /\ root.cache.kind = "Stats"
    /\ root.cache.cache.kind = "Encrypted"
    /\ Did(prev, "set") /\ prev.res.kind = "ok"
    /\ Did(last, "get") /\ last.key = prev.key /\ last.res.val = prev.val

(* C2. Deletion: on every stack, when del cache[k] has been performed      *)
(* (it returned, or raised KeyError) without a failure of the second cache *)
(* and the very next operation is cache[k], it raises KeyError; after the  *)
(* delete on a two-level cache neither cache holds k.                      *)

DeleteThenGet ==
    /\ (Did(prev, "del") /\ ~Failed(prev.res) /\ Did(last, "get") /\ last.key = prev.key)
          => last.res.kind = "KeyError"
    /\ (Did(last, "del") /\ ~Failed(last.res) /\ IsTwoLevel(root) /\ ~IsBroken(root.cache2))
          => (~Holds(root.cache, st, last.key) /\ ~Holds(root.cache2, st, last.key))

\* a key deleted from a two-level cache whose first cache held it, then read
DeleteThenGetSeen ==
    /\ IsTwoLevel(root) /\ ~IsBroken(root.cache2)
    /\ Did(prev, "del") /\ prev.res.kind = "ok"
    /\ Did(last, "get") /\ last.key = prev.key /\ last.res.kind = "KeyError"

----------------------------------------------------------------------------
(* The two-level caches of Spec: root.cache is StatsCache 1 over leaf      *)
(* store 1, root.cache2 StatsCache 2 over leaf store 2.                    *)

(* C3. cache[k] when the first cache holds k returns the first cache's     *)
(* value and does not touch the second cache: its contents and counters    *)
(* stay, no access reaches it, and its failing goes unnoticed.             *)

FirstHit ==
    [][(Doing("get") /\ Holds(root.cache, st, last'.key))
         => /\ last'.res = Ok(ValueAt(1, st, last'.key), 1)
            /\ st'.store[2] = st.store[2]
            /\ st'.stats[2] = st.stats[2]
            /\ Never(Touched(st'), 2)]_vars

\* a value served by the first cache in front of a failing second cache
FirstHitSeen ==
    /\ IsBroken(root.cache2) /\ ~root.resilient
    /\ Did(last, "get") /\ last.res.kind = "ok" /\ last.res.at = 1

(* C4. cache[k] when the first cache misses and the second holds k -> v    *)
(* returns v and leaves k -> v in the first cache; the second cache is     *)
(* read, not written; cache[k] right afterwards is served by the first.    *)

Backfill ==
    [][/\ (Doing("get") /\ ~Holds(root.cache, st, last'.key)
                        /\ Holds(root.cache2, st, last'.key))
            => /\ last'.res = Ok(ValueAt(2, st, last'.key), 2)
               /\ Lookup(root.cache, st', last'.key) = Ok(ValueAt(2, st, last'.key), 1)
               /\ st'.store[2] = st.store[2]
               /\ st'.stats[2].writes = st.stats[2].writes
               /\ st'.stats[2].reads = st.stats[2].reads + 1
       /\ (Did(last, "get") /\ last.res.kind = "ok" /\ last.res.at = 2
                            /\ Doing("get") /\ last'.key = last.key)
            => last'.res = Ok(last.res.val, 1)]_vars

\* a value fetched from the second cache, then served by the first
BackfillSeen ==
    /\ Did(prev, "get") /\ prev.res.kind = "ok" /\ prev.res.at = 2
    /\ Did(last, "get") /\ last.key = prev.key /\ last.res = Ok(prev.res.val, 1)

(* C5. cache[k] when both caches raise KeyError raises the KeyError of the *)
(* first cache, and the contents of both caches stay.                      *)

BothMiss ==
    [][(Doing("get") /\ ~IsBroken(root.cache2)
                     /\ ~Holds(root.cache, st, last'.key)
                     /\ ~Holds(root.cache2, st, last'.key))
         => /\ last'.res = Raise("KeyError", last'.key, 1)
            /\ Touched(st') = <<1, 2>>
            /\ st'.store = st.store]_vars

\* both caches asked, the first one's KeyError raised
BothMissSeen ==
    /\ Did(last, "get") /\ last.res = Raise("KeyError", last.key, 1)
    /\ Touched(st) = <<1, 2>>

(* C6. cache[k] = v and del cache[k] go to the second cache first.  When   *)
(* the second cache fails and resilient is false, the failure is raised    *)
(* and the first cache is left as it was; when resilient is true the first *)
(* cache is written or deleted from all the same.                          *)

SecondFirst ==
    [][(Doing("set") \/ Doing("del"))
         => LET t == Touched(st')
                k == last'.key
            IN  /\ t # <<>> /\ t[1] = 2 /\ AllBefore(t, 2, 1)
                /\ (IsBroken(root.cache2) /\ ~root.resilient)
                     => /\ last'.res.kind = "Exception" /\ last'.res.at = 2
                        /\ t = <<2>>
                        /\ st'.store[1] = st.store[1]
                        /\ st'.stats[1] = st.stats[1]
                /\ (~IsBroken(root.cache2) \/ root.resilient)
                     => /\ t = <<2, 1>>
                        /\ last'.res.at = 1
                        /\ last'.op = "set"
                             => Lookup(root.cache, st', k) = Ok(last'.val, 1)
                        /\ last'.op = "del"
                             => /\ ~Holds(root.cache, st', k)
                                /\ (last'.res.kind = "ok") = Holds(root.cache, st, k)]_vars

\* the first cache deleted from although the second cache failed
SecondFirstSeen ==
    /\ IsBroken(root.cache2) /\ root.resilient
    /\ Did(last, "del") /\ last.res.kind = "ok" /\ Touched(st) = <<2, 1>>

(* C7. cache.clear() empties the first cache and leaves the second as it   *)
(* was; cache[k] right afterwards, for a key the second cache holds,       *)
(* returns its value from the second cache and puts it back in the first.  *)

ClearFirstOnly ==
    [][/\ Doing("clear")
            => /\ st'.store[1] = <<>>
               /\ st'.store[2] = st.store[2]
               /\ st'.stats[2] = st.stats[2]
       /\ (Did(last, "clear") /\ Doing("get") /\ Holds(root.cache2, st, last'.key))
            => /\ last'.res = Ok(ValueAt(2, st, last'.key), 2)
               /\ Holds(root.cache, st', last'.key)]_vars

\* a key read back from the second cache right after clear()
ClearFirstOnlySeen ==
    /\ Did(prev, "clear")
    /\ Did(last, "get") /\ last.res.kind = "ok" /\ last.res.at = 2
    /\ Len(st.store[1]) = 1

(* C8, as stated: with resilient false and a second cache that fails on    *)
(* every operation, every set, get and delete on the two-level cache       *)
(* raises the second cache's failure, whatever the first cache holds.      *)

AllPropagate ==
    (IsBroken(root.cache2) /\ ~root.resilient
        /\ last.via = 0 /\ last.op \in {"set", "get", "del"})
      => (last.res.kind = "Exception" /\ last.res.at = 2)

(* C8, amended: every set and every delete raises the second cache's       *)
(* failure, and so does every get of a key the first cache does not hold;  *)
(* a get of a key the first cache holds returns the first cache's value.   *)

PropagateUnlessHit ==
    [][(IsBroken(root.cache2) /\ ~root.resilient
           /\ (Doing("set") \/ Doing("get") \/ Doing("del")))
         => IF last'.op = "get" /\ Holds(root.cache, st, last'.key)
            THEN last'.res = Ok(ValueAt(1, st, last'.key), 1)
            ELSE last'.res.kind = "Exception" /\ last'.res.at = 2]_vars

\* a get that missed the first cache and raised the second cache's failure
PropagateUnlessHitSeen ==
    /\ IsBroken(root.cache2) /\ ~root.resilient
    /\ Did(last, "get") /\ last.res.kind = "Exception" /\ last.res.at = 2
    /\ Touched(st) = <<1, 2>>

(* C9. With resilient true and a second cache that fails on every          *)
(* operation, the two-level cache does what its first cache alone does:    *)
(* each set, get and delete gives the value or the KeyError that the same  *)
(* operation gives on a copy of the first cache, the two hold the same     *)
(* entries and counters, and no failure of the second cache is raised.     *)

SameAsFirst ==
    Shadowed(root)
      => /\ st.store[1] = shadow.st.store[1]
         /\ st.stats[1] = shadow.st.stats[1]
         /\ (last.via = 0 /\ last.op \in {"set", "get", "del"})
              => /\ last.res = shadow.res
                 /\ last.res.kind \in {"ok", "KeyError"}

\* a miss of the first cache, the failure of the second one absorbed
SameAsFirstSeen ==
    /\ Shadowed(root)
    /\ Did(last, "get") /\ last.res.kind = "KeyError" /\ Touched(st) = <<1, 2>>
    /\ Len(st.store[1]) > 0

(* C10. A two-level cache without failures, written through the cache      *)
(* only, its first cache bounded and its second never evicting: the first  *)
(* cache holds at most its capacity, the second holds every key written    *)
(* with the value written, and cache[k] of a written key returns its       *)
(* value, which the first cache holds afterwards.                          *)

SmallFront ==
    (~IsBroken(root.cache2) /\ ~direct)
      => /\ Len(st.store[1]) <= root.cache.cache.maxsize
         /\ \A k \in Keys :
               written[k] # None => Lookup(root.cache2, st, k) = Ok(written[k], 2)
         /\ (Did(last, "get") /\ written[last.key] # None)
              => /\ last.res.kind = "ok" /\ last.res.val = written[last.key]
                 /\ Lookup(root.cache, st, last.key) = Ok(written[last.key], 1)

\* every key written, the first cache full with one of them, the other one
\* read back from the second cache
SmallFrontSeen ==
    /\ ~IsBroken(root.cache2) /\ ~direct
    /\ \A k \in Keys : written[k] # None
    /\ root.cache.cache.maxsize = 1 /\ Len(st.store[1]) = 1 /\ Len(st.store[2]) = 2
    /\ Did(last, "get") /\ last.res.kind = "ok" /\ last.res.at = 2

----------------------------------------------------------------------------
(* C11. The counters of a StatsCache count the calls made on it: after any *)
(* sequence of operations since construction or the last reset(), reads is *)
(* the number of get calls, hits the number of those that returned a       *)
(* value, writes the number of set calls, dels of delete calls and tests   *)
(* of contains calls; a get that raises KeyError counts as a read only.    *)

CountsExact == root.kind = "Stats" => st.stats[root.id] = calls

CountsExactSeen ==
    /\ root.kind = "Stats"
    /\ calls.reads = 2 /\ calls.hits = 1 /\ calls.writes = 1
    /\ Did(last, "get") /\ last.res.kind = "ok"
    /\ st.stats[root.id] = calls

----------------------------------------------------------------------------
(* C12. In every reachable state each StatsCache has 0 <= hits <= reads,   *)
(* and so has the sum over the two StatsCache tiers of a TwoLevelCache:    *)
(* hits(), of a tier or of the two-level cache, is within [0, 1].          *)

WithinUnit(h) == h.kind = "ok" /\ 0 <= h.val.num /\ h.val.num <= h.val.den

HitsWithinReads ==
    /\ \A id \in StatsIds : 0 <= st.stats[id].hits /\ st.stats[id].hits <= st.stats[id].reads
    /\ WithinUnit(Hits(root.cache, st))
    /\ WithinUnit(Hits(root.cache2, st))
    /\ LET h == Hits(root, st)
       IN  /\ h.kind = "ok"
           /\ h.val # None => WithinUnit(h)
           /\ ~IsBroken(root.cache2) =>
                 /\ h.val # None
                 /\ h.val.num = st.stats[1].hits + st.stats[2].hits
                 /\ h.val.num <= st.stats[1].reads + st.stats[2].reads

HitsWithinReadsSeen ==
    /\ Hits(root, st).val = [num |-> 1, den |-> 3]
    /\ Hits(root.cache, st).val = [num |-> 1, den |-> 2]
    /\ Hits(root.cache2, st).val = [num |-> 0, den |-> 1]

----------------------------------------------------------------------------
(* C13. StatsCache.hits() is hits / max(reads, 1) and never fails.  As     *)
(* stated: it is 0 exactly when reads = 0, non-zero as soon as one read    *)
(* occurred.                                                               *)

ZeroOnlyUnread ==
    root.kind = "Stats" =>
        LET h == Hits(root, st)
        IN  h.kind = "ok" /\ (h.val.num = 0 <=> calls.reads = 0)

(* C13, amended.  hits() never fails, is hits / max(reads, 1), and is 0    *)
(* exactly when no get has returned a value since construction or the last *)
(* reset(): when no read occurred, and also when every read missed.        *)

ZeroWithoutHit ==
    root.kind = "Stats" =>
        LET h == Hits(root, st)
        IN  /\ h.kind = "ok"
            /\ h.val.num = calls.hits
            /\ h.val.den = (IF calls.reads = 0 THEN 1 ELSE calls.reads)
            /\ h.val.num = 0 <=> calls.hits = 0
            /\ calls.reads = 0 => h.val.num = 0

ZeroWithoutHitSeen ==
    /\ root.kind = "Stats"
    /\ calls.reads = 2 /\ calls.hits = 0
    /\ Hits(root, st) = Ok([num |-> 0, den |-> 2], 0)

----------------------------------------------------------------------------
(* C14. StatsCache.reset() sets the five counters to 0 and leaves the data *)
(* as it is: every key keeps its value and len is unchanged; a second      *)
(* reset() right after the first changes nothing.                          *)

ResetZeroes ==
    [][(Doing("reset") /\ root.kind = "Stats") =>
          /\ last'.res = Ok(None, 0)
          /\ st'.stats[root.id] = ZeroStats
          /\ st'.store = st.store
          /\ Length(root, st') = Length(root, st)
          /\ \A k \in Keys : Lookup(root, st', k) = Lookup(root, st, k)
          /\ Did(last, "reset") =>
                (st'.stats = st.stats /\ st'.lock = st.lock /\ st'.log = st.log)]_vars

ResetZeroesSeen ==
    /\ root.kind = "Stats"
    /\ Did(prev, "reset") /\ Did(last, "reset")
    /\ Length(root, st) = Ok(1, 1)
    /\ st.stats[root.id] = ZeroStats

----------------------------------------------------------------------------
(* C15. TwoLevelCache.stats() never fails: it gives a record of type 2     *)
(* with the stats of each tier, {} for a tier whose stats() raises or does *)
(* not exist, each tier on its own.  TwoLevelCache.hits() is               *)
(* (hits1 + hits2) / max(reads1 + reads2, 1) when both tiers give stats of *)
(* type 1, and None otherwise.                                             *)

\* what stats() of StatsCache id over leaf store id gives
Simple(id, s) ==
    [type |-> 1, tests |-> s.stats[id].tests, reads |-> s.stats[id].reads,
     writes |-> s.stats[id].writes, dels |-> s.stats[id].dels, hits |-> s.stats[id].hits,
     hit_rate |-> [num |-> s.stats[id].hits,
                   den |-> IF s.stats[id].reads = 0 THEN 1 ELSE s.stats[id].reads],
     size |-> Len(s.store[id])]

Tiered(c1, c2) == Ok([type |-> 2, cache1 |-> c1, cache2 |-> c2], 0)

Sum(s) == [num |-> s.stats[1].hits + s.stats[2].hits,
           den |-> IF s.stats[1].reads + s.stats[2].reads = 0 THEN 1
                   ELSE s.stats[1].reads + s.stats[2].reads]

TieredStats ==
    LET broken == IsBroken(root.cache2)
        \* the same tiers next to a store without stats(), and two such stores
        second == TwoLevelCache(root.cache, Dict(2), FALSE)
        first == TwoLevelCache(Dict(1), root.cache2, FALSE)
        none == TwoLevelCache(Dict(1), Dict(2), FALSE)
    IN  /\ Stats(root, st) = Tiered(Simple(1, st), IF broken THEN Empty ELSE Simple(2, st))
        /\ Hits(root, st) = Ok(IF broken THEN None ELSE Sum(st), 0)
        /\ Stats(second, st) = Tiered(Simple(1, st), Empty)
        /\ Stats(first, st) = Tiered(Empty, IF broken THEN Empty ELSE Simple(2, st))
        /\ Stats(none, st) = Tiered(Empty, Empty)
        /\ \A c \in {second, first, none} : Hits(c, st) = Ok(None, 0)

TieredStatsSeen ==
    /\ IsBroken(root.cache2)
    /\ st.stats[2].reads = 1
    /\ Stats(root, st).val.cache1.reads = 1
    /\ Stats(root, st).val.cache2 = Empty
    /\ Hits(root, st).val = None

----------------------------------------------------------------------------
(* C16. Mutual exclusion of LockedCache: under every interleaving of       *)
(* threads calling contains/get/set/delete, at most one thread at a time   *)
(* is inside an operation of the inner cache, so the guarded operations    *)
(* come one after the other; the lock is held exactly while a thread is    *)
(* inside, and is free again when the operation ends, also when it raised. *)

Inside(t) == thr[t].pc \in {"count", "add", "inner", "hit", "addhit", "unlock"}

OneAtATime ==
    /\ Cardinality({t \in Threads : Inside(t)}) <= 1
    /\ st.lock[root.id] <=> \E t \in Threads : Inside(t)

OneAtATimeSeen ==
    \E t, u \in Threads :
        /\ thr[t].pc = "idle" /\ thr[t].res.kind = "KeyError"
        /\ last.via = t /\ last.res.kind = "KeyError"
        /\ thr[u].pc = "lock"
        /\ ~st.lock[root.id]

----------------------------------------------------------------------------
(* C17. No counter update is lost under the guard: for                     *)
(* LockedCache(StatsCache(store)) used by several threads through the      *)
(* LockedCache only, whenever all calls have returned the five counters    *)
(* are the numbers of contains, get, set, delete calls made and of get     *)
(* calls that returned a value, whatever the interleaving.                 *)

NoLostCount ==
    (Counts(root.cache) /\ \A t \in Threads : thr[t].pc = "idle") =>
        st.stats[root.cache.id] = calls

NoLostCountSeen ==
    /\ Counts(root.cache)
    /\ \A t \in Threads : thr[t].pc = "idle" /\ thr[t].op = "get"
    /\ calls.reads = 2 /\ calls.hits = 1
    /\ st.stats[root.cache.id] = calls

----------------------------------------------------------------------------
(* C18. Key mapping of PrefixedCache.  As stated: every contains, get, set *)
(* and delete with key k on a PrefixedCache of prefix p acts on the        *)
(* underlying key p + str(k) and on no other; with prefix "f.",            *)
(* set("x", v) makes the store map "f.x" to v, get("x") on the view gives  *)
(* v, and get("x") on the store itself or on a view prefixed "g." raises   *)
(* KeyError.                                                               *)

Raw == Dict(1)

\* a PrefixedCache straight over store 1, or with only a StatsCache between
OverRaw == root.kind = "Prefixed" /\ root.cache \in {Raw, StatsCache(2, Raw)}

\* the text of str(k) for the keys "x" and b"x": x and b'x'
TextOf(k) == IF k.t = "str" THEN <<120>> ELSE <<98, 39, 120, 39>>

\* p + str(k), of the type of p
PlusStr(p, k) == [t |-> p.t, v |-> <<102, 46>> \o TextOf(k)]

\* p + str(k) for a str p; p + bytes(k) for a bytes p, which a str k fails
PlusCast(p, k) ==
    CASE p.t = "str" -> [t |-> "str", v |-> <<102, 46>> \o TextOf(k)]
      [] p.t = "bytes" /\ k.t = "bytes" -> [t |-> "bytes", v |-> <<102, 46, 120>>]
      [] OTHER -> TypeErr

\* the entries of store 1 under other keys than u
Others(s, u) == {s.store[1][i] : i \in {j \in 1..Len(s.store[1]) : s.store[1][j].k # u}}

\* this step is a mapping operation on the view, and it acts on Under(p, k) alone
ActsOn(Under(_, _)) ==
    (OverRaw /\ nops' = nops + 1 /\ last'.via = 0
        /\ last'.op \in {"in", "get", "set", "del"}) =>
        LET u == Under(root.prefix, last'.key)
            res == last'.res
            before == Lookup(Raw, st, u)
            after == Lookup(Raw, st', u)
        IN  IF u.t = "TypeError"
            THEN res.kind = "TypeError" /\ st'.store = st.store
            ELSE /\ Others(st', u) = Others(st, u)
                 /\ last'.op = "set" => (res.kind = "ok" /\ after.kind = "ok"
                                            /\ after.val = last'.val)
                 /\ last'.op = "get" => /\ res.kind = before.kind
                                        /\ before.kind = "ok" => res.val = before.val
                                        /\ st'.store = st.store
                 /\ last'.op = "in" => /\ res.kind = "ok"
                                       /\ res.val = Bool(before.kind = "ok")
                                       /\ st'.store = st.store
                 /\ last'.op = "del" => /\ res.kind = before.kind
                                        /\ after.kind = "KeyError"

\* set("x", v) through the view "f." of a store written through the view only
Scenario ==
    (OverRaw /\ root.prefix = S(<<102, 46>>) /\ ~direct /\ Doing("set")
        /\ last'.key = S(<<120>>)) =>
        /\ Lookup(Raw, st', S(<<102, 46, 120>>)).kind = "ok"
        /\ Lookup(Raw, st', S(<<102, 46, 120>>)).val = last'.val
        /\ Lookup(root, st', S(<<120>>)).kind = "ok"
        /\ Lookup(root, st', S(<<120>>)).val = last'.val
        /\ Lookup(Raw, st', S(<<120>>)).kind = "KeyError"
        /\ Lookup(PrefixedCache(Raw, S(<<103, 46>>)), st', S(<<120>>)).kind = "KeyError"

KeyIsPrefixPlusStr == [][ActsOn(PlusStr) /\ Scenario]_vars

(* C18, amended.  With a str prefix p every operation with key k acts on   *)
(* the underlying key p + str(k) and on no other; with a bytes prefix p it *)
(* acts on p + bytes(k), and a key bytes() refuses (a str) raises          *)
(* TypeError and leaves the store alone.  The "f." scenario holds.         *)

KeyIsPrefixPlusCast == [][ActsOn(PlusCast) /\ Scenario]_vars

KeyIsPrefixPlusCastSeen ==
    /\ OverRaw /\ ~direct
    /\ root.prefix = S(<<102, 46>>)
    /\ Did(last, "set") /\ last.key = S(<<120>>)
    /\ Lookup(Raw, st, S(<<102, 46, 120>>)).kind = "ok"
    /\ Lookup(Raw, st, S(<<120>>)).kind = "KeyError"
    /\ Did(prev, "set") /\ prev.key = B(<<120>>)
    /\ Lookup(Raw, st, S(<<102, 46, 98, 39, 120, 39>>)).kind = "ok"

----------------------------------------------------------------------------
(* C19. Namespace isolation.  As stated: for any two PrefixedCache views   *)
(* with different prefixes over one store and any keys, a key written only *)
(* through one view is never seen through the other (contains is false,    *)
(* get raises KeyError), and a set or delete through one view never        *)
(* changes what the other returns.                                         *)

\* view j sees no key that was not set through it (the store itself unused)
SeesOwnOnly(s, w) ==
    \A j \in 1..2, k \in ViewKeys :
        (k \notin w[j] /\ w[0] = {}) =>
            (~Holds(views[j], s, k) /\ Lookup(views[j], s, k).kind = "KeyError")

\* this step, a set or delete through one view, changes nothing of the other
LeavesOther ==
    \A i, j \in 1..2 :
        (i # j /\ nops' = nops + 1 /\ last'.via = i /\ last'.op \in {"set", "del"}) =>
            \A k \in ViewKeys :
                /\ Lookup(views[j], st', k) = Lookup(views[j], st, k)
                /\ Holds(views[j], st', k) <=> Holds(views[j], st, k)

Isolated == [][LeavesOther /\ SeesOwnOnly(st', written')]_vars

(* C19, amended.  The same, for two views of which neither prefix is the   *)
(* beginning of the other: "f." and "g.", but not "f." and "f.g.".         *)

Begins(p, q) ==
    p.t = q.t /\ Len(p.v) <= Len(q.v) /\ SubSeq(q.v, 1, Len(p.v)) = p.v

Apart == ~Begins(views[1].prefix, views[2].prefix)
         /\ ~Begins(views[2].prefix, views[1].prefix)

IsolatedApart == [][Apart => (LeavesOther /\ SeesOwnOnly(st', written'))]_vars

IsolatedApartSeen ==
    /\ Apart
    /\ last.op = "del" /\ last.via = 1 /\ last.res.kind = "ok"
    /\ prev.op = "set" /\ prev.via = 2 /\ prev.key = last.key
    /\ ~Holds(views[1], st, last.key)
    /\ Lookup(views[2], st, last.key).kind = "ok"
    /\ Lookup(views[2], st, last.key).val = prev.val

----------------------------------------------------------------------------
(* C20. Automatic prefix uniqueness: the counter of AutoPrefixedCache goes *)
(* up by exactly one per successful construction and never down, each      *)
(* instance takes the value current at its construction, and the instances *)
(* built one after another hold pairwise distinct prefixes.                *)

\* the counter moves by one when an instance is built, and not otherwise
CounterSteps ==
    /\ counter' >= counter
    /\ (last'.op = "new" /\ last'.res.kind = "ok") => counter' = counter + 1
    /\ (last'.op = "new" /\ last'.res.kind # "ok") => counter' = counter

\* the instance built holds the prefix of the counter as it was: "AA==.",
\* "00." or "!!." at 0, "AQ==.", "01." or "!<." at 1, "Ag==.", "02." or "!W."
\* at 2, "Dg==.", "0E." or "%K." at 14, "MA==.", "30." or "0E." at 48
TakesCurrent ==
    Len(views') > Len(views) =>
        LET p == views'[Len(views')].prefix
        IN  /\ Len(views') = Len(views) + 1
            /\ counter' = counter + 1
            /\ counter = 0 => p \in {S(<<65, 65, 61, 61, 46>>), S(<<48, 48, 46>>),
                                     S(<<33, 33, 46>>)}
            /\ counter = 1 => p \in {S(<<65, 81, 61, 61, 46>>), S(<<48, 49, 46>>),
                                     S(<<33, 60, 46>>)}
            /\ counter = 2 => p \in {S(<<65, 103, 61, 61, 46>>), S(<<48, 50, 46>>),
                                     S(<<33, 87, 46>>)}
            /\ counter = 14 => p \in {S(<<68, 103, 61, 61, 46>>), S(<<48, 69, 46>>),
                                      S(<<37, 75, 46>>)}
            /\ counter = 48 => p \in {S(<<77, 65, 61, 61, 46>>), S(<<51, 48, 46>>),
                                      S(<<48, 69, 46>>)}

Distinct(vs) == \A i, j \in 1..Len(vs) : i # j => vs[i].prefix # vs[j].prefix

UniquePrefixes == [][CounterSteps /\ TakesCurrent /\ Distinct(views')]_vars


----------------------------------------------------------------------------
(* C22. AutoPrefixedCache with a method that _METHODS does not have raises *)
(* an Exception whose message ends with the method asked for, and takes    *)
(* nothing: the counter, the backing store and the instances built stay,   *)
(* and the instance built next holds the prefix of the number of instances *)
(* built before it, as if the refused construction had not been tried.     *)

\* the text ends with tail
EndsWith(text, tail) ==
    /\ Len(tail) <= Len(text)
    /\ SubSeq(text, (Len(text) - Len(tail)) + 1, Len(text)) = tail

RefusedTakesNothing ==
    [][/\ \A method \in Asked \ Methods, keep \in BOOLEAN :
            NewAuto(method, keep)
              => /\ last'.res.kind = "Exception"
                 /\ EndsWith(last'.res.val.v,
                             <<109, 101, 116, 104, 111, 100, 58, 32>> \o Name(method))
                 /\ counter' = counter /\ st' = st /\ views' = views /\ nops' = nops
       /\ (last.res.kind = "Exception" /\ Len(views') > Len(views))
            => \E method \in Methods :
                  views'[Len(views')].prefix = AutoPrefix(nops, Sep, method)]_vars

\* a refused construction after one instance was built and kept
RefusedTakesNothingSeen ==
    /\ last.op = "new" /\ last.res.kind = "Exception"
    /\ EndsWith(last.res.val.v, <<98, 97, 100, 45, 109, 101, 116, 104, 111, 100>>)
    /\ counter = 1 /\ nops = 1 /\ Len(views) = 1

----------------------------------------------------------------------------
(* C21. Concurrent construction: when several threads build                *)
(* AutoPrefixedCache instances at the same time, the instances built hold  *)
(* pairwise distinct prefixes, and once every construction has returned    *)
(* the counter is its initial value, 0, plus the number of instances       *)
(* built.                                                                  *)

SafeConstruction ==
    /\ Distinct(views)
    /\ (\A t \in Threads : thr[t].pc = "idle") => counter = nops

----------------------------------------------------------------------------
(* The cached callable of SpecCached: its cache is its outermost layer,    *)
(* over StatsCache 1 and leaf store 1.                                     *)

\* the key under which the leaf store holds the result for args
LeafKey(layer, args) ==
    IF layer.kind = "Prefixed" THEN PrefixedKey(layer.prefix, HashKey(args))
    ELSE HashKey(args)

\* the result for args is in the callable's cache
Cached(args) ==
    /\ fun.layers # <<>>
    /\ Index(st.store[1], LeafKey(fun.layers[1], args)) # 0

\* this step is op(*args) on the cached callable
DoingWith(op, args) == Doing(op) /\ last'.key = T(args)

\* the counters of the StatsCache that this step leaves alone
SameCounts(names) == \A n \in names : st'.stats[1][n] = st.stats[1][n]

(* C24. Memoization: a call of a callable under cached(cache) whose key is *)
(* not in the cache runs the callable once, stores what it returned under  *)
(* the key and returns it; a call whose key is in the cache returns the    *)
(* stored value and does not run the callable; and an entry stays, with no *)
(* further run of the callable for its key, through every step that is     *)
(* not its cache_del or a re-wrapping.                                     *)

MemoizedOnce ==
    [][\A args \in Args :
          /\ (DoingWith("call", args) /\ Len(fun.layers) = 1)
                => /\ last'.res.kind = "ok"
                   /\ last'.res.val = Original(args)
                   /\ Cached(args)
                        => /\ fun'.invoked = fun.invoked
                           /\ last'.res.val
                                = ValueAt(1, st, LeafKey(fun.layers[1], args))
                           /\ st'.store = st.store
                   /\ ~Cached(args)
                        => /\ fun'.invoked[args] = fun.invoked[args] + 1
                           /\ \A other \in Args \ {args} :
                                 fun'.invoked[other] = fun.invoked[other]
                           /\ Cached(args)'
                           /\ ValueAt(1, st', LeafKey(fun.layers[1], args))
                                = Original(args)
          /\ (Cached(args) /\ ~DoingWith("cache_del", args) /\ ~Doing("wrap"))
                => (Cached(args)' /\ fun'.invoked[args] = fun.invoked[args])]_vars

\* the same call twice, as test_cached: the callable ran once, the
\* StatsCache read twice and hit once
MemoizedOnceSeen ==
    /\ Len(fun.layers) = 1
    /\ Did(prev, "call") /\ Did(last, "call") /\ last.key = prev.key
    /\ prev.res.kind = "ok" /\ last.res.kind = "ok" /\ last.res.val = prev.res.val
    /\ fun.invoked[last.key.v] = 1
    /\ st.stats[1].reads = 2 /\ st.stats[1].hits = 1 /\ st.stats[1].writes = 1

(* C25. cache_in(args) returns whether the key of args is in the cache of  *)
(* the callable, and changes nothing but the count of membership tests:    *)
(* the callable does not run, the entries stay, and so do the reads and    *)
(* the hits of the StatsCache underneath.                                  *)

PeekChangesNothing ==
    [][\A args \in Args :
          DoingWith("cache_in", args)
            => /\ last'.res.kind = "ok"
               /\ last'.res.val = Bool(Cached(args))
               /\ fun' = fun
               /\ st'.store = st.store
               /\ SameCounts({"reads", "hits", "writes", "dels"})]_vars

\* cache_in after the call, as test_cached: true, and the one read of the
\* call is still the only one
PeekChangesNothingSeen ==
    /\ Did(prev, "call") /\ Did(last, "cache_in") /\ last.key = prev.key
    /\ last.res.val = Bool(TRUE)
    /\ st.stats[1].reads = 1 /\ st.stats[1].hits = 0 /\ fun.invoked[last.key.v] = 1

(* C26. cache_del(args) returns whether the key of args was in the cache   *)
(* of the callable and raises nothing; the entry, if any, is removed and   *)
(* every other entry stays; when there was none, the entries and the       *)
(* reads, hits, writes and deletes of the StatsCache underneath stay (the  *)
(* membership test is counted); either way cache_in(args) is false         *)
(* afterwards.                                                             *)

InvalidateRemovesOne ==
    [][\A args \in Args :
          DoingWith("cache_del", args)
            => LET k == LeafKey(fun.layers[1], args)
               IN  /\ last'.res.kind = "ok"
                   /\ last'.res.val = Bool(Cached(args))
                   /\ fun' = fun
                   /\ st'.store[1] = IF Cached(args)
                                     THEN Without(st.store[1], Index(st.store[1], k))
                                     ELSE st.store[1]
                   /\ st'.store[2] = st.store[2]
                   /\ ~Cached(args) => SameCounts({"reads", "hits", "writes", "dels"})
                   /\ ~Cached(args)'
                   /\ cache_in(fun.layers, st', args).res.val = Bool(FALSE)]_vars

\* cache_del of one of two cached results: it returned true, the other
\* result is still there
InvalidateRemovesOneSeen ==
    /\ Did(last, "cache_del") /\ last.res.val = Bool(TRUE)
    /\ ~Cached(last.key.v)
    /\ \E other \in Args \ {last.key.v} : Cached(other)
    /\ st.stats[1].dels = 1

(* C27. Batch wrapping does not stack: whatever layers the target had,     *)
(* after cacheFunctions or cacheMethods has wrapped it, any number of      *)
(* times, it is the original callable under one cache layer; a call then   *)
(* looks the key up once and stores at most one entry.                     *)

OneLayer ==
    [][/\ fun'.wrapped > 0 => Len(fun'.layers) = 1
       /\ (fun.wrapped > 0 /\ Doing("call"))
            => /\ st'.stats[1].reads = st.stats[1].reads + 1
               /\ st'.stats[1].writes - st.stats[1].writes
                    = fun'.invoked[last'.key.v] - fun.invoked[last'.key.v]
               /\ Len(st'.store[1]) - Len(st.store[1])
                    = fun'.invoked[last'.key.v] - fun.invoked[last'.key.v]
               /\ fun'.invoked[last'.key.v] - fun.invoked[last'.key.v] \in 0..1]_vars

\* a target wrapped twice, then called: one read, one entry
OneLayerSeen ==
    /\ fun.wrapped = 2 /\ Len(fun.layers) = 1
    /\ Did(last, "call") /\ last.res.kind = "ok"
    /\ st.stats[1].reads = 1 /\ st.stats[1].writes = 1 /\ Len(st.store[1]) = 1

(* C28. Batch wrapping with a name that the object or the globals do not   *)
(* have raises an error whose message contains the missing name.           *)

\* sub occurs in text
Within(sub, text) ==
    \E i \in 0..(Len(text) - Len(sub)) : SubSeq(text, i + 1, i + Len(sub)) = sub

----------------------------------------------------------------------------
(* C29. Stale backfill: threads sharing a two-level cache that no lock     *)
(* wraps as a whole can leave, with every call returned, the first cache   *)
(* holding for a key an older value than the second; under a LockedCache   *)
(* around the two-level cache this never happens.  The state is reached by *)
(* cache[k] missing the first cache, reading v1 in the second and writing  *)
(* it to the first after cache[k] = v2 of another thread wrote both; later *)
(* reads of k return v1.                                                   *)

AllReturned == \A t \in Threads : thr[t].pc = "idle"

\* the two caches hold different values for key
Stale(key) ==
    /\ Index(st.store[1], key) # 0
    /\ Index(st.store[2], key) # 0
    /\ ValueAt(1, st, key) # ValueAt(2, st, key)

StaleOnlyUnguarded == (AllReturned /\ \E key \in Keys : Stale(key)) => ~Guarded

\* one get and one set of the same key and nothing else: both returned, the
\* get with the value found at the start, which the first cache, itself
\* under a lock, now holds, while the second cache holds the value set
StaleBackfillSeen ==
    /\ root = TwoLevelCache(LockedCache(1, Dict(1)), Dict(2), FALSE)
    /\ AllReturned /\ nops = 2
    /\ prev.op = "set" /\ prev.res.kind = "ok"
    /\ last.op = "get" /\ last.key = prev.key /\ last.via # prev.via
    /\ last.res.kind = "ok" /\ last.res.val # prev.val
    /\ ValueAt(1, st, last.key) = last.res.val
    /\ ValueAt(2, st, last.key) = prev.val
    /\ Lookup(root, st, last.key) = Ok(last.res.val, 1)

----------------------------------------------------------------------------
(* C30, as stated: del cache[k] on a two-level cache whose second cache    *)
(* does not fail raises KeyError exactly when neither cache holds k;       *)
(* deleting a key held by the first cache, by the second or by both        *)
(* returns without error.                                                  *)

DeleteFailsIffAbsent ==
    [][(Doing("del") /\ ~IsBroken(root.cache2))
         => (last'.res.kind = "KeyError"
               <=> (~Holds(root.cache, st, last'.key)
                       /\ ~Holds(root.cache2, st, last'.key)))]_vars

(* C30, amended: del cache[k] on a two-level cache whose second cache does *)
(* not fail raises KeyError exactly when the first cache does not hold k,  *)
(* whatever the second cache holds; a key held by the second cache alone   *)
(* is removed from it and the delete still raises KeyError.  Either way    *)
(* neither cache holds k afterwards.                                       *)

DeleteFailsIffNotFirst ==
    [][(Doing("del") /\ ~IsBroken(root.cache2))
         => /\ last'.res.kind = (IF Holds(root.cache, st, last'.key)
                                 THEN "ok" ELSE "KeyError")
            /\ ~Holds(root.cache, st', last'.key)
            /\ ~Holds(root.cache2, st', last'.key)]_vars

\* a key written to the second cache alone, then deleted through the
\* two-level cache: the second cache's entry is gone and KeyError is raised
DeleteFailsIffNotFirstSeen ==
    /\ ~IsBroken(root.cache2)
    /\ prev.op = "set" /\ prev.via = 2 /\ prev.res.kind = "ok"
    /\ ~Holds(root.cache, st, prev.key)
    /\ Did(last, "del") /\ last.key = prev.key /\ last.res.kind = "KeyError"
    /\ st.stats[2].dels = 1 /\ st.store[2] = <<>>
----------------------------------------------------------------------------
(* An encrypted cache whose backing store is altered behind its back, as   *)
(* test_encrypted_cache does: actual[k] = bytes([...]) + actual[k][1:].    *)

\* test.py: EncryptedCache(actual, SECRET, csize=1, cipher=...) for the stream
\* ciphers (Salsa20 and ChaCha20 differ by the keystream only)
Sealed == EncryptedCache(Dict(1), SECRET, HSize, 1)

\* one-byte clear values: the SHA3-256 digests of b"\x01" and b"\xa3" begin
\* with the same byte, as do those of b"\x04" and b"\xa4"; no other single
\* byte shares the first digest byte of b"\x02"
Clear1 == {B(<<1>>), B(<<2>>), B(<<4>>)}

InitTamper == InitWith({Sealed})

\* actual[k] = actual[k] with the byte at index at replaced by byte, where k
\* is the hashed key under which the cache stored the value of key
Tamper(key, at, byte) ==
    LET k == HashedKey(root, key)
        i == Index(st.store[1], k)
        old == st.store[1][i].v.v
        new == B([old EXCEPT ![at + 1] = byte])
    IN  /\ direct = FALSE
        /\ key.t = "bytes"
        /\ i # 0
        /\ at < Len(old)
        /\ byte # old[at + 1]
        /\ Ran("tamper", 1, key, new, SetItem(root.cache, Begin(st), k, new, 1))
        /\ direct' = TRUE
        /\ UNCHANGED <<shadow, written>>

NextTamper ==
    \/ \E key \in Keys, val \in Clear1 : Set(key, val, 1)
    \/ \E key \in Keys : Get(key, 1)
    \/ \E key \in Keys : Del(key)
    \/ \E key \in Keys, at \in 0..1, byte \in 0..255 : Tamper(key, at, byte)

SpecTamper == InitTamper /\ [][NextTamper]_vars

\* C23: with a checksum of one byte or more, once one byte of the value stored
\* for key k was altered in the backing store (a checksum byte or a ciphertext
\* byte), the next get(k) raises the KeyError "invalid encrypted value for key
\* k" of the encrypted cache and returns no value.
TamperDetected ==
    (root.csize > 0 /\ Did(last, "get") /\ prev.op = "tamper" /\ prev.key = last.key)
        => last.res = Raise("KeyError", last.key, 0)
----------------------------------------------------------------------------
\* C31: for a two-level cache of two StatsCache whose tiers never fail and
\* are reached through the two-level cache only, after any gets, sets and
\* deletes since the tiers were built or reset: the second tier was read once
\* per miss of the first (reads2 = reads1 - hits1), written once per set, and
\* the first tier was written once per set and once per hit of the second.
TierCounts ==
    (Counted(root) /\ IsTwoLevel(root) /\ ~IsBroken(root.cache2) /\ ~direct)
        => LET t1 == st.stats[root.cache.id]
               t2 == st.stats[root.cache2.id]
           IN  /\ t2.reads = t1.reads - t1.hits
               /\ t2.writes = calls.writes
               /\ t1.writes = calls.writes + t2.hits

\* two sets, then a get the second tier answered and the first one kept
TierCountsSeen ==
    /\ Counted(root) /\ IsTwoLevel(root) /\ ~IsBroken(root.cache2) /\ ~direct
    /\ Did(last, "get") /\ last.res.kind = "ok"
    /\ calls.writes = 2
    /\ st.stats[root.cache2.id].hits = 1
    /\ st.stats[root.cache.id].writes = 3
    /\ st.stats[root.cache.id].hits = 0
----------------------------------------------------------------------------
(* Threads calling cached functions that call cached functions, as         *)
(* run_thread has them: banged(s, n) returns repeat(s, n) + "!", both      *)
(* cached over an AutoPrefixedCache of one LockedCache(StatsCache(         *)
(* DictCache)).  A call of a cached function is the wrapper of             *)
(* cachetools.cached: cache[k] is tried, on KeyError the function is run   *)
(* and cache[k] = v follows.  Each cache access is LockedCache's "with     *)
(* self._lock" around the operation of the cache below: waiting for the    *)
(* lock is a step of its own, the operation and the release another.       *)

\* test_threads: LockedCache(StatsCache(DictCache()), lock)
Shared == LockedCache(1, StatsCache(1, Dict(1)))

\* the argument lists (s, n) the threads call banged with
Repeats == {<<(<<97>>), 1>>, <<(<<98>>), 2>>}

\* s * n
RECURSIVE Times(_, _)
Times(s, n) == IF n = 0 THEN <<>> ELSE s \o Times(s, n - 1)

\* test.py repeat and banged, as they are before cached wraps them
repeat(args) == S(Times(args[1], args[2]))
banged(inner) == S(inner.v \o <<33>>)

\* str(cachetools.keys.hashkey(s, n)): the repr of the tuple, ('a', 1)
ArgsKey(args) == S(<<40, 39>> \o args[1] \o <<39, 44, 32>> \o Digits(args[2]) \o <<41>>)

\* the two AutoPrefixedCache(cache) of the decorators, repeat's built first
CacheOf(fn) == IF fn = "repeat" THEN views[1] ELSE views[2]

\* a key that forgets the arguments
NestKey_NoArgs(fn, args) == PrefixedKey(CacheOf(fn).prefix, S(<<>>))

\* PrefixedCache._key of the hashkey of the arguments, in the cache of fn
NestKey(fn, args) == PrefixedKey(CacheOf(fn).prefix, ArgsKey(args))

\* a thread outside every call; inside, the frames of its calls, innermost
\* last, and whether it is inside "with self._lock"
Outside == [args |-> <<>>, stack |-> <<>>, held |-> FALSE]

Frame(fn) == [fn |-> fn, pc |-> "lookup", val |-> None]

Top(t) == thr[t].stack[Len(thr[t].stack)]

At(t, pcs) == thr[t].stack # <<>> /\ Top(t).pc \in pcs

InitNested ==
    /\ root = Shared
    /\ views = <<PrefixedCache(root, AutoPrefix(0, Sep, "b64")),
                 PrefixedCache(root, AutoPrefix(1, Sep, "b64"))>>
    /\ counter = 2
    /\ st = InitSt
    /\ thr = [t \in Threads |-> Outside]
    /\ fun = [kind |-> "function", layers |-> <<>>, invoked |-> <<>>, called |-> {}]
    /\ last = NoOp
    /\ prev = NoOp
    /\ nops = 0
    /\ shadow = NoShadow
    /\ written = NoWritten
    /\ direct = FALSE
    /\ calls = ZeroStats

\* what no step of a call changes
Alone == UNCHANGED <<root, views, counter, shadow, written, direct, calls>>

\* the top frame of thread t becomes frame
Move(t, frame) == [thr[t] EXCEPT !.stack[Len(thr[t].stack)] = frame]

\* thread t calls banged(*args)
NestCall(t, args) ==
    /\ thr[t].stack = <<>>
    /\ nops < MaxOps
    /\ nops' = nops + 1
    /\ thr' = [thr EXCEPT ![t] = [Outside EXCEPT !.args = args,
                                                 !.stack = <<Frame("banged")>>]]
    /\ fun' = [fun EXCEPT !.called = @ \cup {args}]
    /\ UNCHANGED <<st, last, prev>>
    /\ Alone

\* LockedCache.__getitem__ / __setitem__: "with self._lock" is entered
NestLock(t) ==
    /\ At(t, {"lookup", "store"})
    /\ LockFree(st, root.id)
    /\ st' = Acquire(st, root.id)
    /\ thr' = [thr EXCEPT ![t] = [Move(t, [Top(t) EXCEPT !.pc = IF @ = "lookup" THEN "get"
                                                                ELSE "set"])
                                  EXCEPT !.held = TRUE]]
    /\ UNCHANGED <<nops, last, prev, fun>>
    /\ Alone

\* a wrapper that keeps the lock from the lookup that missed until the store
NestGet_Hold(t) ==
    LET r == GetItem(root.cache, Begin(st), NestKey(Top(t).fn, thr[t].args), 1)
        hit == r.res.kind = "ok"
    IN  /\ At(t, {"get"})
        /\ st' = IF hit THEN Release(r, root.id).st ELSE r.st
        /\ thr' = [thr EXCEPT ![t] =
                     [Move(t, [Top(t) EXCEPT !.pc = IF hit THEN "return" ELSE "body",
                                             !.val = IF hit THEN r.res.val ELSE @])
                      EXCEPT !.held = ~hit]]
        /\ UNCHANGED <<nops, last, prev, fun>>
        /\ Alone

\* return self._cache.__getitem__(key) inside the "with", which is left; the
\* wrapper returns the value, or goes on to run the function on KeyError
NestGet(t) ==
    LET r == GetItem(root.cache, Begin(st), NestKey(Top(t).fn, thr[t].args), 1)
        hit == r.res.kind = "ok"
    IN  /\ At(t, {"get"})
        /\ st' = Release(r, root.id).st
        /\ thr' = [thr EXCEPT ![t] =
                     [Move(t, [Top(t) EXCEPT !.pc = IF hit THEN "return" ELSE "body",
                                             !.val = IF hit THEN r.res.val ELSE @])
                      EXCEPT !.held = FALSE]]
        /\ UNCHANGED <<nops, last, prev, fun>>
        /\ Alone

\* v = func(*args): repeat computes s * n; banged calls repeat(s, n), itself
\* a cached function, and waits for it
NestBody(t) ==
    /\ At(t, {"body"})
    /\ thr' = [thr EXCEPT ![t] =
                 IF Top(t).fn = "repeat"
                 THEN Move(t, [Top(t) EXCEPT !.pc = "store", !.val = repeat(thr[t].args)])
                 ELSE [Move(t, [Top(t) EXCEPT !.pc = "await"])
                       EXCEPT !.stack = Append(@, Frame("repeat"))]]
    /\ UNCHANGED <<st, nops, last, prev, fun>>
    /\ Alone

\* cache[k] = v: self._cache.__setitem__(key, val) inside the "with", left
NestSet(t) ==
    LET r == SetItem(root.cache, Begin(st), NestKey(Top(t).fn, thr[t].args), Top(t).val, 1)
    IN  /\ At(t, {"set"})
        /\ st' = Release(r, root.id).st
        /\ thr' = [thr EXCEPT ![t] = [Move(t, [Top(t) EXCEPT !.pc = "return"])
                                      EXCEPT !.held = FALSE]]
        /\ UNCHANGED <<nops, last, prev, fun>>
        /\ Alone

\* return v: to banged, which adds "!" and stores its own result, or to the
\* thread
NestReturn(t) ==
    LET v == Top(t).val
        rest == SubSeq(thr[t].stack, 1, Len(thr[t].stack) - 1)
    IN  /\ At(t, {"return"})
        /\ IF rest # <<>>
           THEN /\ thr' = [thr EXCEPT ![t].stack =
                             [rest EXCEPT ![Len(rest)] =
                                 [@ EXCEPT !.pc = "store", !.val = banged(v)]]]
                /\ UNCHANGED <<last, prev>>
           ELSE /\ thr' = [thr EXCEPT ![t] = Outside]
                /\ prev' = last
                /\ last' = [op |-> "banged", via |-> t, key |-> thr[t].args, val |-> None,
                            res |-> Ok(v, 0)]
        /\ UNCHANGED <<st, nops, fun>>
        /\ Alone

\* the steps of thread t inside a call
Nested(t) ==
    \/ NestLock(t)
    \/ NestGet(t)
    \/ NestBody(t)
    \/ NestSet(t)
    \/ NestReturn(t)

NextNested ==
    \E t \in Threads :
        \/ \E args \in Repeats : NestCall(t, args)
        \/ Nested(t)

SpecNested == InitNested /\ [][NextNested]_vars

\* the scheduler runs every thread that can take a step
SpecNestedFair == SpecNested /\ \A t \in Threads : WF_vars(Nested(t))
----------------------------------------------------------------------------
\* C32: when threads call cached functions that call cached functions through
\* one LockedCache whose lock is not reentrant, no thread is inside the "with"
\* of the lock when it runs a wrapped function, the threads are never all
\* waiting for a lock that is taken, and, the scheduler being fair, every call
\* returns.
Busy(t) == thr[t].stack # <<>>

NoLockInBody == \A t \in Threads : At(t, {"body", "await"}) => ~thr[t].held

NotAllWaiting ==
    (\A t \in Threads : At(t, {"lookup", "store"})) => LockFree(st, root.id)

NoDeadlock ==
    /\ [](NoLockInBody /\ NotAllWaiting)
    /\ \A t \in Threads : Busy(t) ~> ~Busy(t)

\* one thread runs repeat inside banged while the other one is inside the
\* "with" of the lock
NoDeadlockSeen ==
    \E t, u \in Threads :
        /\ Len(thr[t].stack) = 2 /\ At(t, {"body"})
        /\ thr[u].held /\ At(u, {"get", "set"})

\* C33: whatever the interleaving of the threads calling banged, every call
\* returns repeat(s, n) + "!" for its own arguments, and once every thread
\* has returned the cache holds one entry for each function and each
\* argument list called, and nothing else.
Entries == {e.k : e \in {st.store[1][i] : i \in 1..Len(st.store[1])}}

AllOutside == \A t \in Threads : ~Busy(t)

OwnResultOneEntry ==
    /\ last.op = "banged" => last.res = Ok(banged(repeat(last.key)), 0)
    /\ AllOutside =>
        /\ Entries = {NestKey(fn, args) : fn \in {"repeat", "banged"}, args \in fun.called}
        /\ Len(st.store[1]) = 2 * Cardinality(fun.called)

\* both threads called banged with both argument lists, one of the calls
\* answered from the cache
OwnResultOneEntrySeen ==
    /\ AllOutside /\ nops = 3 /\ Cardinality(fun.called) = 2
    /\ Len(st.store[1]) = 4
    /\ st.stats[1].hits > 0
    /\ last.op = "banged" /\ prev.op = "banged" /\ last.via # prev.via
----------------------------------------------------------------------------
(* Threads getting, setting and deleting through one LockedCache around    *)
(* the whole two-level cache, the first cache a dict or a cachetools cache *)
(* of one entry, the second a dict, which never evicts.                    *)

GuardedCaches ==
    {LockedCache(1, TwoLevelCache(first, Dict(2), FALSE)) : first \in {Dict(1), Cache(1, 1)}}

InitGuarded ==
    /\ root \in GuardedCaches
    /\ \E found \in Found : st = [InitSt EXCEPT !.store[2] = found]
    /\ thr = [t \in Threads |-> Idle]
    /\ last = NoOp
    /\ prev = NoOp
    /\ nops = 0
    /\ shadow = NoShadow
    /\ written = NoWritten
    /\ direct = FALSE
    /\ calls = ZeroStats
    /\ views = <<>>
    /\ counter = 0
    /\ fun = NoFun

NextGuarded ==
    \/ NextTiers
    \/ \E t \in Threads, key \in Keys : TierCall(t, "del", key, None)

SpecGuarded == InitGuarded /\ [][NextGuarded]_vars

\* C34: with one LockedCache around the whole two-level cache and every
\* access through it, no tier failing and the second cache never evicting,
\* whenever no thread is inside an operation every entry of the first cache
\* is an entry of the second one, with the same value, whatever the
\* interleaving of the threads' gets, sets and deletes.
Coherent ==
    \A i \in 1..Len(st.store[1]) :
        \E j \in 1..Len(st.store[2]) : st.store[2][j] = st.store[1][i]

CoherentUnderGuard == (Guarded /\ LockFree(st, root.id)) => Coherent

\* a delete after a get that the second cache answered, by another thread,
\* and the first cache holding an entry still
CoherentUnderGuardSeen ==
    /\ Guarded /\ AllReturned /\ nops = 3
    /\ last.op = "del" /\ last.res.kind = "ok"
    /\ prev.op = "get" /\ prev.res.kind = "ok" /\ prev.res.at = 2 /\ prev.via # last.via
    /\ st.store[1] # <<>>
----------------------------------------------------------------------------
(* A function cached through a two-level cache: cached(cache=              *)
(* TwoLevelCache(first, second)), the first cache a cachetools cache of    *)
(* one entry, which evicts, and cleared by cache.clear(); the second a     *)
(* dict.                                                                   *)

TwoLevelOver == TwoLevelCache(Cache(1, 1), Dict(2), FALSE)

\* the second cache as the function finds it: empty, or holding the result
\* for one argument list that the first cache holds no more (evicted, or
\* cleared by cache.clear(), which is not passed on to the second cache)
Kept2 == {<<>>} \cup {<<[k |-> HashKey(args), v |-> Original(args)]>> : args \in Args}

InitInvalidate ==
    /\ root = TwoLevelOver
    /\ fun = [kind |-> "function", layers |-> <<root>>, invoked |-> [a \in Args |-> 0],
              wrapped |-> 0]
    /\ \E kept \in Kept2 : st = [InitSt EXCEPT !.store[2] = kept]
    /\ last = NoOp
    /\ prev = NoOp
    /\ nops = 0
    /\ shadow = NoShadow
    /\ written = NoWritten
    /\ direct = FALSE
    /\ calls = ZeroStats
    /\ thr = NoThreads
    /\ views = <<>>
    /\ counter = 0

\* cache.clear() on the cache of the function
ClearCache ==
    /\ ClearAll
    /\ UNCHANGED fun

NextInvalidate ==
    \/ \E args \in Args : CallFun(args)
    \/ \E args \in Args : CacheIn(args)
    \/ \E args \in Args : CacheDel(args)
    \/ ClearCache

SpecInvalidate == InitInvalidate /\ [][NextInvalidate]_vars

\* C35: for a function cached through a two-level cache, the call that
\* follows cache_del(args) with the same arguments runs the function again,
\* also when only the second cache held the entry.
InvalidateThenRun ==
    [][\A args \in Args :
          (Did(last, "cache_del") /\ last.key = T(args) /\ DoingWith("call", args))
            => fun'.invoked[args] = fun.invoked[args] + 1]_vars
----------------------------------------------------------------------------
(* cache.clear() on a LockedCache, which defines none: it is               *)
(* MutableMapping.clear, "while True: self.popitem()" until KeyError, and  *)
(* popitem is key = next(iter(self)), value = self[key], del self[key].    *)
(* iter(self) is _MutMapMix.__iter__, the dict's own iterator, taken       *)
(* outside the lock; self[key] and del self[key] are LockedCache's, each   *)
(* inside the lock.  Other threads run contains, get and delete meanwhile, *)
(* by the steps of SpecThreads.                                            *)

\* the store when the threads start: an entry for each key, in either order
Filled ==
    {<<[k |-> ab[1], v |-> B(<<1>>)], [k |-> ab[2], v |-> I(2)]>> :
        ab \in {x \in Keys \X Keys : x[1] # x[2]}}

InitClear ==
    /\ root \in ThreadedCaches
    /\ \E filled \in Filled : st = [InitSt EXCEPT !.store[1] = filled]
    /\ thr = [t \in Threads |-> Idle]
    /\ last = NoOp
    /\ prev = NoOp
    /\ nops = 0
    /\ shadow = NoShadow
    /\ written = NoWritten
    /\ direct = FALSE
    /\ calls = ZeroStats
    /\ views = <<>>
    /\ counter = 0
    /\ fun = NoFun

\* what no step of clear() changes
Rest == UNCHANGED <<root, prev, written, direct, views, counter, fun, calls>>

\* clear() returns (popitem raised KeyError) or raises
Cleared(t, res) ==
    /\ thr' = [thr EXCEPT ![t] = Idle]
    /\ last' = [op |-> "clear", via |-> t, key |-> None, val |-> None, res |-> res]

\* thread t calls cache.clear(); the store as it is then is remembered
ClearCall(t) ==
    /\ thr[t].pc = "idle"
    /\ nops < MaxOps
    /\ nops' = nops + 1
    /\ thr' = [thr EXCEPT ![t] = [Idle EXCEPT !.pc = "iter", !.op = "clear"]]
    /\ shadow' = [st |-> st, res |-> Ok(None, 0)]
    /\ UNCHANGED <<st, last>>
    /\ Rest

\* popitem: iter(self), the iterator of the dict, which notes the dict's size
ClearIter(t) ==
    /\ thr[t].pc = "iter"
    /\ thr' = [thr EXCEPT ![t].pc = "next", ![t].reg = Len(st.store[1])]
    /\ UNCHANGED <<st, nops, last, shadow>>
    /\ Rest

\* popitem: next(...): RuntimeError when the dict changed size since,
\* StopIteration, which popitem turns into the KeyError that ends clear(),
\* when the dict is empty, else the first key
ClearNext(t) ==
    /\ thr[t].pc = "next"
    /\ IF Len(st.store[1]) # thr[t].reg
       THEN Cleared(t, Raise("RuntimeError", None, 0))
       ELSE IF st.store[1] = <<>>
       THEN Cleared(t, Ok(None, 0))
       ELSE /\ thr' = [thr EXCEPT ![t].pc = "poplock", ![t].key = st.store[1][1].k]
            /\ UNCHANGED last
    /\ UNCHANGED <<st, nops, shadow>>
    /\ Rest

\* popitem: self[key] and del self[key] enter "with self._lock"
ClearLock(t) ==
    /\ thr[t].pc \in {"poplock", "dellock"}
    /\ LockFree(st, root.id)
    /\ st' = Acquire(st, root.id)
    /\ thr' = [thr EXCEPT ![t].pc = IF @ = "poplock" THEN "popget" ELSE "popdel"]
    /\ UNCHANGED <<nops, last, shadow>>
    /\ Rest

\* popitem: value = self[key] inside the lock, which is left; its KeyError
\* is popitem's, and ends clear()
ClearGet(t) ==
    LET r == Release(GetItem(root.cache, Begin(st), thr[t].key, 1), root.id)
    IN  /\ thr[t].pc = "popget"
        /\ st' = r.st
        /\ IF r.res.kind = "ok"
           THEN thr' = [thr EXCEPT ![t].pc = "dellock"] /\ UNCHANGED last
           ELSE Cleared(t, IF r.res.kind = "KeyError" THEN Ok(None, 0) ELSE r.res)
        /\ UNCHANGED <<nops, shadow>>
        /\ Rest

\* popitem: del self[key] inside the lock, which is left; then the next
\* popitem
ClearDel(t) ==
    LET r == Release(DelItem(root.cache, Begin(st), thr[t].key), root.id)
    IN  /\ thr[t].pc = "popdel"
        /\ st' = r.st
        /\ IF r.res.kind = "ok"
           THEN thr' = [thr EXCEPT ![t].pc = "iter"] /\ UNCHANGED last
           ELSE Cleared(t, IF r.res.kind = "KeyError" THEN Ok(None, 0) ELSE r.res)
        /\ UNCHANGED <<nops, shadow>>
        /\ Rest

NextClear ==
    \E t \in Threads :
        \/ \E key \in Keys : Call(t, "in", key, None)
        \/ \E key \in Keys : Call(t, "get", key, None)
        \/ \E key \in Keys : Call(t, "del", key, None)
        \/ Enter(t)
        \/ Load(t)
        \/ Store(t)
        \/ Run(t)
        \/ Leave(t)
        \/ ClearCall(t)
        \/ ClearIter(t)
        \/ ClearNext(t)
        \/ ClearLock(t)
        \/ ClearGet(t)
        \/ ClearDel(t)

SpecClear == InitClear /\ [][NextClear]_vars

\* C36: once clear() on a LockedCache has returned, none of the keys that
\* were in the cache when it was called is in the cache (no thread writes
\* here), also when other threads delete or read keys of the cache
\* meanwhile.
ClearRemovesAll ==
    (last.op = "clear" /\ last.res.kind = "ok" /\ thr[last.via].pc = "idle")
        => \A i \in 1..Len(shadow.st.store[1]) :
              Index(st.store[1], shadow.st.store[1][i].k) = 0
====
